---------------------------- MODULE Spec2Model ----------------------------
(***************************************************************************)
(* A model of the Tortillas test orchestration engine:                     *)
(*   - LogAnalyzer.analyze and the TestResult rule modes                    *)
(*     (src/tortillas/log_analyzer.py)            -- specification SpecLA   *)
(*   - one execution of _run: QemuInterface scope, watchdog outcome,        *)
(*     TestResult.analyze (src/tortillas/test_runner.py, qemu_interface.py, *)
(*     test_result.py)                            -- specification SpecRun  *)
(*   - TestRunner.start: work queue, running map, lock, worker threads and  *)
(*     their completion callbacks (src/tortillas/test_runner.py)            *)
(*                                                -- specification Spec     *)
(* Text is modelled as a sequence of tokens (one-character strings, or a    *)
(* literal of the source kept as one token).                                *)
(***************************************************************************)
EXTENDS Integers, Sequences, FiniteSets, TLC

(***************************************************************************)
(* Bounds of the model.                                                    *)
(***************************************************************************)
MaxRules == 2

MaxRunRules == 1

NumRuns == 3

MaxThreads == 2

RetryCap == 2

None == "None"

(***************************************************************************)
(* Text helpers: Python's str methods used by the source.                  *)
(***************************************************************************)
Whitespace == {" ", "\n", "\t"}

Digits == {"0", "1", "2", "3", "4", "5", "6", "7", "8", "9"}

RECURSIVE LStrip(_)
LStrip(s) ==
    IF s # <<>> /\ Head(s) \in Whitespace THEN LStrip(Tail(s)) ELSE s

RECURSIVE RStrip(_)
RStrip(s) ==
    IF s # <<>> /\ s[Len(s)] \in Whitespace
    THEN RStrip(SubSeq(s, 1, Len(s) - 1))
    ELSE s

\* str.strip()
Strip(s) == RStrip(LStrip(s))

\* str.startswith(prefix)
StartsWith(s, prefix) ==
    /\ Len(s) >= Len(prefix)
    /\ SubSeq(s, 1, Len(prefix)) = prefix

\* needle in hay
Contains(needle, hay) ==
    \E i \in 1..(Len(hay) - Len(needle) + 1) :
        SubSeq(hay, i, i + Len(needle) - 1) = needle

\* ''.join(lines)
RECURSIVE Join(_)
Join(lines) ==
    IF lines = <<>> THEN <<>> ELSE Head(lines) \o Join(Tail(lines))

\* sep.join(lines)
RECURSIVE JoinSep(_, _)
JoinSep(sep, lines) ==
    IF lines = <<>> THEN <<>>
    ELSE IF Len(lines) = 1 THEN Head(lines)
    ELSE Head(lines) \o sep \o JoinSep(sep, Tail(lines))

DigitVal(c) ==
    CASE c = "0" -> 0 [] c = "1" -> 1 [] c = "2" -> 2 [] c = "3" -> 3
      [] c = "4" -> 4 [] c = "5" -> 5 [] c = "6" -> 6 [] c = "7" -> 7
      [] c = "8" -> 8 [] c = "9" -> 9

DigitChar(d) ==
    CASE d = 0 -> "0" [] d = 1 -> "1" [] d = 2 -> "2" [] d = 3 -> "3"
      [] d = 4 -> "4" [] d = 5 -> "5" [] d = 6 -> "6" [] d = 7 -> "7"
      [] d = 8 -> "8" [] d = 9 -> "9"

RECURSIVE DigitsVal(_, _)
DigitsVal(s, acc) ==
    IF s = <<>> THEN acc ELSE DigitsVal(Tail(s), 10 * acc + DigitVal(Head(s)))

IsDecimal(s) == s # <<>> /\ \A i \in 1..Len(s) : s[i] \in Digits

\* int(s) of Python: surrounding whitespace is dropped, one optional sign,
\* then decimal digits; anything else raises ValueError.
int(s) ==
    LET t == Strip(s)
        ValueError == [error |-> TRUE, value |-> 0]
    IN
    IF t # <<>> /\ Head(t) \in {"-", "+"}
    THEN IF IsDecimal(Tail(t))
         THEN [error |-> FALSE,
               value |-> (IF Head(t) = "-" THEN -1 ELSE 1)
                           * DigitsVal(Tail(t), 0)]
         ELSE ValueError
    ELSE IF IsDecimal(t)
         THEN [error |-> FALSE, value |-> DigitsVal(t, 0)]
         ELSE ValueError

\* str(n) of a Python int
RECURSIVE NatStr(_)
NatStr(n) ==
    IF n < 10 THEN <<DigitChar(n)>>
    ELSE NatStr(n \div 10) \o <<DigitChar(n % 10)>>

str(n) == IF n < 0 THEN <<"-">> \o NatStr(-n) ELSE NatStr(n)

\* constants.py
TORTILLAS_EXPECT_PREFIX ==
    <<"T", "O", "R", "T", "I", "L", "L", "A", "S", " ",
      "E", "X", "P", "E", "C", "T", ":", " ">>

\* The Markdown code fence of the error texts: three backquotes in the
\* source, a character TLA+ strings cannot hold.
Fence == "'''"

Range(f) == {f[i] : i \in DOMAIN f}

(***************************************************************************)
(* State.                                                                  *)
(***************************************************************************)
VARIABLES
    test_spec,           \* TestSpec: disabled, expect_timeout, expect_exit_codes
    config,              \* list of AnalyzeConfigEntry: name, mode, set_status
    log_data,            \* LogData in dict order: <<[name, logs], ...>>
    ir_watchdog_status,  \* InterruptWatchdog.Status handed to the analysis
    result,              \* TestResult: status, errors, retry
    pc,                  \* position of the analysing thread
    entry_i              \* next item of log_data / config the loop visits

la_vars == <<test_spec, config, log_data, ir_watchdog_status, result, pc,
             entry_i>>

VARIABLES
    arch,        \* architecture handed to QemuInterface
    run_pc,      \* position of the thread executing _run
    scope,       \* QemuInterface scope: "outside", "entering", "inside",
                 \* "exiting", "left"
    fifo_in,     \* the named pipe <tmp_dir>/qemu.in exists
    fifo_out,    \* the named pipe <tmp_dir>/qemu.out exists
    process,     \* child emulator: "none", "running", "exit0", "exit1"
    input,       \* QemuInterface.input: "unset", "open", "closed"
    int_log,     \* the interrupt logfile int.log exists
    exc,         \* the exception in flight, or None
    returning,   \* the with-block was left by `return`
    monitor,     \* monitor commands written so far
    callbacks    \* number of times the completion callback was invoked

qemu_vars == <<scope, fifo_in, fifo_out, process, input, int_log, monitor>>

run_vars == <<arch, run_pc, exc, returning, callbacks, qemu_vars>>

\* TestRunner.start: config.threads, self.test_runs, the locals test_queue,
\* running_tests and lock, each run's result and thread, the main thread's
\* position, the progress counters, self.success and the exit status
VARIABLES threads, test_runs, test_queue, running_tests, lock, results,
          thread_pc, main_pc, fill_i, counters, enqueues, success, exit_status

sched_vars == <<threads, test_runs, test_queue, running_tests, lock, results,
                thread_pc, main_pc, fill_i, counters, enqueues, success,
                exit_status>>

\* InterruptWatchdog.wait_until: the interrupt log written so far and the
\* lines the emulator is still to write, self.file_pos, the iterations done,
\* iterations_file_unchanged, the position in wait_until, its return value
\* and its arguments
VARIABLES logfile, script, file_pos, polls, iterations_file_unchanged, wd_pc,
          wd_res, int_num, wait_regs, timeout

wd_vars == <<logfile, script, file_pos, polls, iterations_file_unchanged,
             wd_pc, wd_res, int_num, wait_regs, timeout>>

\* LogParser.parse
VARIABLES
    parse_config,        \* self.config of the LogParser
    matches,             \* what split_by_pattern.finditer yields
    parsed,              \* log_data of parse
    match_i,             \* position of `for match in ...`
    rule_i,              \* position of `for config_entry in self.config`
    lp_pc

lp_vars == <<parse_config, matches, parsed, match_i, rule_i, lp_pc>>

\* escape_ansi
VARIABLES
    ea_line,             \* the bytes given to escape_ansi
    ea_once,             \* escape_ansi(line)
    ea_twice,            \* escape_ansi(escape_ansi(line))
    ea_pc

ea_vars == <<ea_line, ea_once, ea_twice, ea_pc>>

\* _create_snapshot and the part of main around it
VARIABLES
    alive,           \* "True" or "False": what qemu.is_alive() returned
    snap_res,        \* res of the bootup wait
    bootup_error,
    golden,          \* TEST_RUN_DIR/SWEB-snapshot.qcow2 has been written
    tests_started,   \* main has called test_runner.start()
    snap_exit        \* "1" once main has ended with exit status 1

snap_vars == <<alive, snap_res, bootup_error, golden, tests_started,
               snap_exit>>

\* a caller that invokes LogAnalyzer.analyze a second time
VARIABLES
    first_result     \* <<>>, or <<what the first invocation returned>>

twice_vars == <<first_result>>

\* TestRunner.__init__ and get_markdown_test_summary
VARIABLES
    specs,           \* the specs handed to TestRunner: test_name, disabled
    repeat,
    registered,      \* what run i of self.test_runs is: spec, run_number
    disabled_specs,  \* self.disabled_specs, by test_name
    summary          \* the rows of the summary table, <<>> before it is made

runner_vars == <<specs, repeat, registered, disabled_specs, summary>>

\* split_by_pattern.finditer over the cleaned log
VARIABLES
    escaped_logs,    \* the text that finditer scans, a sequence of characters
    scan_at,         \* where the next search of finditer starts
    scanned,         \* the matches so far: start, group1, group2
    scan_pc

scan_vars == <<escaped_logs, scan_at, scanned, scan_pc>>

vars == <<la_vars, run_vars, sched_vars, wd_vars, lp_vars, ea_vars,
          snap_vars, twice_vars, runner_vars, scan_vars>>

(***************************************************************************)
(* TestResult of log_analyzer.py.                                          *)
(***************************************************************************)
\* TestResult(status): errors and retry take their dataclass defaults
TestResult(status) == [status |-> status, errors |-> <<>>, retry |-> FALSE]

set_status(res, status) ==
    IF status = None THEN res ELSE [res EXCEPT !.status = status]

\* add_errors that appends but never touches the status
add_errors_keeps_status(res, errors, status) ==
    IF errors = <<>> THEN res ELSE [res EXCEPT !.errors = @ \o errors]

add_errors(res, errors, status) ==
    IF errors = <<>> THEN res
    ELSE set_status([res EXCEPT !.errors = @ \o errors], status)

\* the observed lines and the expectations of check_expect_stdout
stdout_of(logs) ==
    SelectSeq(logs, LAMBDA line : ~StartsWith(line, TORTILLAS_EXPECT_PREFIX))

RECURSIVE expect_stdout_of(_)
expect_stdout_of(logs) ==
    IF logs = <<>> THEN <<>>
    ELSE IF StartsWith(Head(logs), TORTILLAS_EXPECT_PREFIX)
         THEN <<SubSeq(Head(logs), Len(TORTILLAS_EXPECT_PREFIX),
                       Len(Head(logs)))>>
              \o expect_stdout_of(Tail(logs))
         ELSE expect_stdout_of(Tail(logs))

\* the "Expected output" errors, in the order of the expectations
RECURSIVE missing_outputs(_, _)
missing_outputs(expects, stdout) ==
    IF expects = <<>> THEN <<>>
    ELSE LET expect == Head(expects) IN
         (IF \E k \in 1..Len(stdout) : Contains(Strip(expect), stdout[k])
          THEN <<>>
          ELSE << <<"Expected output: ">> \o expect >>)
         \o missing_outputs(Tail(expects), stdout)

check_expect_stdout(res, logs, status) ==
    LET stdout  == stdout_of(logs)
        missing == missing_outputs(expect_stdout_of(logs), stdout)
    IN
    IF missing = <<>> THEN res
    ELSE set_status(
            [res EXCEPT !.errors =
                @ \o missing
                  \o << <<"Actual output:\n", Fence, "\n">> \o Join(stdout)
                        \o <<"\n", Fence>> >>],
            status)

\* the for loop of check_exit_codes: the result it leaves, whether it met an
\* unexpected code, and whether it returned from the function
RECURSIVE exit_codes_loop(_, _, _, _)
exit_codes_loop(res, exit_codes, expect_exit_codes, unexpected) ==
    IF exit_codes = <<>>
    THEN [res |-> res, unexpected |-> unexpected, returned |-> FALSE]
    ELSE LET exit_code     == Head(exit_codes)
             exit_code_int == int(exit_code)
         IN
         IF exit_code_int.error
         THEN [res |-> [res EXCEPT
                          !.errors = Append(@, <<"Failed to parse exit code ">>
                                               \o exit_code),
                          !.status = "FAILED",
                          !.retry  = TRUE],
               unexpected |-> unexpected, returned |-> TRUE]
         ELSE IF exit_code_int.value \notin Range(expect_exit_codes)
         THEN exit_codes_loop(
                [res EXCEPT !.errors = Append(@, <<"Unexpected exit code ">>
                                                 \o exit_code)],
                Tail(exit_codes), expect_exit_codes, TRUE)
         ELSE exit_codes_loop(res, Tail(exit_codes), expect_exit_codes,
                              unexpected)

\* check_exit_codes without the closing "Expected exit code(s)" entry
exit_codes_checked_no_summary(res, exit_codes, expect_exit_codes, status) ==
    LET after == exit_codes_loop(res, exit_codes, expect_exit_codes, FALSE) IN
    IF after.returned \/ ~after.unexpected THEN after.res
    ELSE set_status(after.res, status)

\* what check_exit_codes does after its PANIC and empty-list tests
exit_codes_checked(res, exit_codes, expect_exit_codes, status) ==
    LET after == exit_codes_loop(res, exit_codes, expect_exit_codes, FALSE) IN
    IF after.returned THEN after.res
    ELSE IF after.unexpected
    THEN set_status(
            [after.res EXCEPT !.errors =
                Append(@, <<"Expected exit code(s): ">>
                          \o JoinSep(<<",", " ">>,
                                     [k \in DOMAIN expect_exit_codes |->
                                        str(expect_exit_codes[k])]))],
            status)
    ELSE after.res

\* check_exit_codes that forgets to ask for a retry
check_exit_codes_no_retry(res, exit_codes, expect_exit_codes, status) ==
    IF res.status = "PANIC" \/ exit_codes = <<>> THEN res
    ELSE [exit_codes_checked(res, exit_codes, expect_exit_codes, status)
            EXCEPT !.retry = FALSE]

check_exit_codes(res, exit_codes, expect_exit_codes, status) ==
    IF res.status = "PANIC" THEN res
    ELSE IF exit_codes = <<>>
    THEN LET missing == [res EXCEPT !.errors = Append(@, <<"Missing exit code!">>)]
         IN IF res.status = "SUCCESS"
            THEN [missing EXCEPT !.status = "FAILED"]
            ELSE exit_codes_checked(missing, exit_codes, expect_exit_codes,
                                    status)
    ELSE exit_codes_checked(res, exit_codes, expect_exit_codes, status)

(***************************************************************************)
(* LogAnalyzer.analyze of log_analyzer.py, one action per step of its      *)
(* loop over log_data.                                                     *)
(***************************************************************************)
\* next(entry for entry in self.config if entry.name == name)
get_config_entry_by_name(cfg, name) ==
    cfg[CHOOSE i \in 1..Len(cfg) :
            /\ cfg[i].name = name
            /\ \A j \in 1..(i - 1) : cfg[j].name # name]

\* analyze up to its loop: the fresh result and the two pre-reductions
analyze_begin(spec, watchdog) ==
    LET r0 == TestResult("SUCCESS")
        r1 == IF watchdog = "STOPPED"
              THEN add_errors(r0, << <<"Test killed, because no more ",
                                       "interrupts were coming">> >>, None)
              ELSE r0
    IN
    IF watchdog = "TIMEOUT" /\ ~spec.expect_timeout
    THEN add_errors(r1, << <<"Test execution timeout">> >>, "TIMEOUT")
    ELSE r1

\* one iteration of `for entry_name, logs in log_data.items()`
analyze_entry(res, spec, cfg, item) ==
    LET config_entry == get_config_entry_by_name(cfg, item.name)
        status       == config_entry.set_status
        logs         == item.logs
    IN
    IF logs = <<>> THEN res
    ELSE CASE config_entry.mode = "add_as_error" ->
                add_errors(res, logs, status)
           [] config_entry.mode = "add_as_error_join" ->
                add_errors(res, << <<Fence, "\n">> \o Join(logs)
                                   \o <<Fence, "\n">> >>, status)
           [] config_entry.mode = "add_as_error_last" ->
                add_errors(res, SubSeq(logs, 1, 1), status)
           [] config_entry.mode = "expect_stdout" ->
                check_expect_stdout(res, logs, status)
           [] config_entry.mode = "exit_codes" ->
                check_exit_codes(res, logs,
                                 IF spec.expect_exit_codes = <<>>
                                 THEN <<0>> ELSE spec.expect_exit_codes,
                                 status)
           [] OTHER -> res

\* analyze that tests `disabled` only after the two pre-reductions
analyze_call_disabled_late ==
    /\ pc = "call"
    /\ IF test_spec.disabled
       THEN /\ result' = [analyze_begin(test_spec, ir_watchdog_status)
                            EXCEPT !.status = "DISABLED"]
            /\ pc' = "returned"
       ELSE /\ result' = analyze_begin(test_spec, ir_watchdog_status)
            /\ pc' = "loop"
    /\ entry_i' = 1
    /\ UNCHANGED <<test_spec, config, log_data, ir_watchdog_status>>
    /\ UNCHANGED <<run_vars, sched_vars, wd_vars, lp_vars, ea_vars, snap_vars, twice_vars, runner_vars, scan_vars>>

\* analyze whose TestResult takes up the error list of the result made
\* before it (one list object shared by every TestResult)
analyze_call_shared_errors ==
    /\ pc = "call"
    /\ LET r0 == analyze_begin(test_spec, ir_watchdog_status) IN
       IF test_spec.disabled
       THEN /\ result' = [TestResult("SUCCESS") EXCEPT !.status = "DISABLED"]
            /\ pc' = "returned"
       ELSE /\ result' = [r0 EXCEPT !.errors = result.errors \o @]
            /\ pc' = "loop"
    /\ entry_i' = 1
    /\ UNCHANGED <<test_spec, config, log_data, ir_watchdog_status>>
    /\ UNCHANGED <<run_vars, sched_vars, wd_vars, lp_vars, ea_vars, snap_vars, twice_vars, runner_vars, scan_vars>>

analyze_call ==
    /\ pc = "call"
    /\ IF test_spec.disabled
       THEN /\ result' = [TestResult("SUCCESS") EXCEPT !.status = "DISABLED"]
            /\ pc' = "returned"
       ELSE /\ result' = analyze_begin(test_spec, ir_watchdog_status)
            /\ pc' = "loop"
    /\ entry_i' = 1
    /\ UNCHANGED <<test_spec, config, log_data, ir_watchdog_status>>
    /\ UNCHANGED <<run_vars, sched_vars, wd_vars, lp_vars, ea_vars, snap_vars, twice_vars, runner_vars, scan_vars>>

analyze_loop ==
    /\ pc = "loop"
    /\ entry_i <= Len(log_data)
    /\ result' = analyze_entry(result, test_spec, config, log_data[entry_i])
    /\ entry_i' = entry_i + 1
    /\ UNCHANGED <<test_spec, config, log_data, ir_watchdog_status, pc>>
    /\ UNCHANGED <<run_vars, sched_vars, wd_vars, lp_vars, ea_vars, snap_vars, twice_vars, runner_vars, scan_vars>>

analyze_return ==
    /\ pc = "loop"
    /\ entry_i > Len(log_data)
    /\ pc' = "returned"
    /\ UNCHANGED <<test_spec, config, log_data, ir_watchdog_status, result,
                   entry_i>>
    /\ UNCHANGED <<run_vars, sched_vars, wd_vars, lp_vars, ea_vars, snap_vars, twice_vars, runner_vars, scan_vars>>

\* _run is not executing
RunIdle ==
    /\ arch = "x86_64"
    /\ run_pc = "idle"
    /\ scope = "outside"
    /\ fifo_in = FALSE
    /\ fifo_out = FALSE
    /\ process = "none"
    /\ input = "unset"
    /\ int_log = FALSE
    /\ exc = None
    /\ returning = FALSE
    /\ monitor = <<>>
    /\ callbacks = 0

\* TestRunner.start is not executing
SchedIdle ==
    /\ threads = 1
    /\ test_runs = <<>>
    /\ test_queue = <<>>
    /\ running_tests = {}
    /\ lock = "free"
    /\ results = <<>>
    /\ thread_pc = <<>>
    /\ main_pc = "idle"
    /\ fill_i = 0
    /\ counters = <<>>
    /\ enqueues = <<>>
    /\ success = FALSE
    /\ exit_status = None

\* no TestRunner has been constructed from a list of specs
RunnerIdle ==
    /\ specs = <<>>
    /\ repeat = 1
    /\ registered = <<>>
    /\ disabled_specs = <<>>
    /\ summary = <<>>

\* analyze has not returned yet
TwiceIdle == first_result = <<>>

\* finditer has not been called
ScanIdle ==
    /\ escaped_logs = <<>>
    /\ scan_at = 1
    /\ scanned = <<>>
    /\ scan_pc = "idle"

\* _create_snapshot has not been called
SnapIdle ==
    /\ alive = None
    /\ snap_res = None
    /\ bootup_error = FALSE
    /\ golden = FALSE
    /\ tests_started = FALSE
    /\ snap_exit = None

\* escape_ansi has not been called
EaIdle ==
    /\ ea_line = <<>>
    /\ ea_once = <<>>
    /\ ea_twice = <<>>
    /\ ea_pc = "idle"

\* no LogParser has been constructed
LpIdle ==
    /\ parse_config = <<>>
    /\ matches = <<>>
    /\ parsed = <<>>
    /\ match_i = 1
    /\ rule_i = 1
    /\ lp_pc = "idle"

WdIdle ==
    /\ logfile = <<>>
    /\ script = <<>>
    /\ file_pos = 0
    /\ polls = 0
    /\ iterations_file_unchanged = 0
    /\ wd_pc = "idle"
    /\ wd_res = None
    /\ int_num = 0
    /\ wait_regs = <<>>
    /\ timeout = 0

(***************************************************************************)
(* The inputs of the analysis.                                             *)
(***************************************************************************)
WatchdogStatus == {"OK", "TIMEOUT", "STOPPED"}

TestSpecs ==
    {[disabled |-> d, expect_timeout |-> t, expect_exit_codes |-> c] :
        d \in BOOLEAN, t \in BOOLEAN, c \in {<<>>}}
    \cup {[disabled |-> FALSE, expect_timeout |-> FALSE,
           expect_exit_codes |-> <<1, 2>>]}

Modes == {"add_as_error", "add_as_error_join", "add_as_error_last",
          "expect_stdout", "exit_codes"}

SetStatuses == {None, "PANIC", "FAILED"}

ExpectLine(text) == TORTILLAS_EXPECT_PREFIX \o text

\* captured lines a rule of the given mode may hold
LogsOf(mode) ==
    CASE mode = "expect_stdout" ->
            { <<ExpectLine(<<"A">>), <<"A">>>>,
              <<ExpectLine(<<"A">>), <<"A">>, ExpectLine(<<"B">>)>> }
      [] mode = "exit_codes" ->
            { <<>>,
              << <<"0">> >>,
              << <<"1">>, <<"3">> >>,
              << <<"3">>, <<"1", "x">>, <<"4">> >> }
      [] OTHER ->
            { <<>>, << <<"b", "a", "d", "\n">>, <<"o", "p", "\n">> >> }

RuleOptions ==
    UNION {{[mode |-> m, set_status |-> st, logs |-> l] : l \in LogsOf(m)} :
              m \in Modes, st \in SetStatuses} 

RuleName(i) == <<"rule", i>>

ConfigOf(opts) ==
    [i \in DOMAIN opts |-> [name |-> RuleName(i), mode |-> opts[i].mode,
                            set_status |-> opts[i].set_status]]

LogDataOf(opts) ==
    [i \in DOMAIN opts |-> [name |-> RuleName(i), logs |-> opts[i].logs]]

Scenarios == UNION {[1..n -> RuleOptions] : n \in 0..MaxRules}

InitLA ==
    /\ test_spec \in TestSpecs
    /\ ir_watchdog_status \in WatchdogStatus
    /\ \E opts \in Scenarios :
          /\ config = ConfigOf(opts)
          /\ log_data = LogDataOf(opts)
    /\ result = TestResult("NOT_RUN")
    /\ pc = "call"
    /\ entry_i = 1
    /\ RunIdle
    /\ SchedIdle
    /\ WdIdle
    /\ LpIdle
    /\ EaIdle
    /\ SnapIdle
    /\ TwiceIdle
    /\ RunnerIdle
    /\ ScanIdle

NextLA == analyze_call \/ analyze_loop \/ analyze_return

SpecLA == InitLA /\ [][NextLA]_vars

(***************************************************************************)
(* Properties of LogAnalyzer.analyze (checked under SpecLA).               *)
(***************************************************************************)
\* the config entry the loop is about to apply, and the step applying it
CurrentEntry == get_config_entry_by_name(config, log_data[entry_i].name)

RuleStep ==
    /\ pc = "loop"
    /\ entry_i <= Len(log_data)
    /\ entry_i' = entry_i + 1

Appended == Len(result'.errors) > Len(result.errors)

\* the rule about to be applied is an exit_codes rule that will reach a
\* capture that is no decimal integer
ParseFailure ==
    /\ CurrentEntry.mode = "exit_codes"
    /\ result.status # "PANIC"
    /\ \E k \in 1..Len(log_data[entry_i].logs) :
          int(log_data[entry_i].logs[k]).error

\* C9: during one analyze invocation, once the status is PANIC no later rule
\* application of any mode changes it, and exit_codes entered with status
\* PANIC adds no error.
C9_PanicSticky ==
    [][(RuleStep /\ result.status = "PANIC") =>
          /\ result'.status = "PANIC"
          /\ (CurrentEntry.mode = "exit_codes" =>
                result'.errors = result.errors)]_vars

\* C10 as stated: for every rule of every mode, set_status is applied iff
\* the rule appended at least one error.
C10_SetStatusIffAppended ==
    [][RuleStep =>
          /\ (Appended /\ CurrentEntry.set_status # None =>
                result'.status = CurrentEntry.set_status)
          /\ (~Appended => result'.status = result.status)]_vars

\* C10 amended: set_status is applied iff the rule appended an error, except
\* for an exit_codes rule that meets an unparsable capture, which appends
\* its errors and sets FAILED and retry whatever its set_status.
C10_SetStatusIffAppendedUnlessParseFailure ==
    [][RuleStep =>
          /\ (Appended /\ ~ParseFailure /\ CurrentEntry.set_status # None =>
                result'.status = CurrentEntry.set_status)
          /\ (ParseFailure =>
                Appended /\ result'.status = "FAILED" /\ result'.retry)
          /\ (~Appended => result'.status = result.status)]_vars

\* a rule with set_status PANIC appended errors and its status was applied,
\* after an exit_codes rule with set_status PANIC failed to parse a capture
C10_Witness ==
    /\ pc = "loop"
    /\ entry_i = 3
    /\ config[1].mode = "exit_codes"
    /\ config[1].set_status = "PANIC"
    /\ config[2].mode = "add_as_error_last"
    /\ config[2].set_status = "PANIC"
    /\ result.retry
    /\ result.status = "PANIC"
    /\ Len(result.errors) = 3

\* the captures of the rule about to be applied, the errors its application
\* appends, and the exit codes the spec expects (0 by default)
CurrentLogs == log_data[entry_i].logs

NewErrors ==
    SubSeq(result'.errors, Len(result.errors) + 1, Len(result'.errors))

ExpectedCodes ==
    IF test_spec.expect_exit_codes = <<>> THEN <<0>>
    ELSE test_spec.expect_exit_codes

ExitCodesStep == RuleStep /\ CurrentEntry.mode = "exit_codes"

Unparsable(logs) == \E k \in 1..Len(logs) : int(logs[k]).error

\* the captures that parse to a code the spec does not expect, in order, and
\* the errors that report them
UnexpectedCodes(logs) ==
    SelectSeq(logs, LAMBDA c : /\ ~int(c).error
                               /\ int(c).value \notin Range(ExpectedCodes))

UnexpectedErrors(logs) ==
    [k \in 1..Len(UnexpectedCodes(logs)) |->
        <<"Unexpected exit code ">> \o UnexpectedCodes(logs)[k]]

\* k unexpected codes were reported by k + 1 errors, the last one the
\* "Expected exit code(s)" entry, and set_status was applied
ReportsUnexpected ==
    LET k == Len(UnexpectedCodes(CurrentLogs)) IN
    /\ Len(NewErrors) = k + 1
    /\ SubSeq(NewErrors, 1, k) = UnexpectedErrors(CurrentLogs)
    /\ Head(NewErrors[k + 1]) = "Expected exit code(s): "
    /\ (CurrentEntry.set_status # None =>
          result'.status = CurrentEntry.set_status)

\* C11 as stated: whenever the captures of an exit_codes rule hold a code
\* that is not expected, each such code is reported in capture order,
\* followed by exactly one "Expected exit code(s)" entry, and set_status is
\* applied.
C11_UnexpectedCodesReported ==
    [][(ExitCodesStep /\ UnexpectedCodes(CurrentLogs) # <<>>)
          => ReportsUnexpected]_vars

\* C11 amended: the same, for a rule applied while the status is not PANIC
\* and whose captures all parse as decimal integers.
C11_UnexpectedCodesReportedWhenParsed ==
    [][(/\ ExitCodesStep
        /\ UnexpectedCodes(CurrentLogs) # <<>>
        /\ result.status # "PANIC"
        /\ ~Unparsable(CurrentLogs))
          => ReportsUnexpected]_vars

\* the codes 1 and 3 were both unexpected and were reported by three errors
C11_Witness ==
    /\ pc = "loop"
    /\ entry_i = 2
    /\ config[1].mode = "exit_codes"
    /\ config[1].set_status = "FAILED"
    /\ log_data[1].logs = << <<"1">>, <<"3">> >>
    /\ ir_watchdog_status = "OK"
    /\ test_spec.expect_exit_codes = <<>>
    /\ Len(result.errors) = 3
    /\ result.status = "FAILED"

\* the first capture that does not parse, and what the rule appends when it
\* stops there
FirstUnparsable(logs) ==
    CHOOSE k \in 1..Len(logs) :
        /\ int(logs[k]).error
        /\ \A j \in 1..(k - 1) : ~int(logs[j]).error

StopsAtFirstUnparsable ==
    LET k == FirstUnparsable(CurrentLogs) IN
    /\ NewErrors = UnexpectedErrors(SubSeq(CurrentLogs, 1, k - 1))
                   \o << <<"Failed to parse exit code ">> \o CurrentLogs[k] >>
    /\ result'.status = "FAILED"
    /\ result'.retry

\* C12 as stated: an exit_codes rule whose captures hold a string that does
\* not parse appends "Failed to parse exit code <s>" for the first such
\* string, sets FAILED and retry and leaves the later captures alone; no
\* other rule and no pre-reduction sets retry.
C12_ParseFailureSetsRetry ==
    [][/\ (ExitCodesStep /\ Unparsable(CurrentLogs)) => StopsAtFirstUnparsable
       /\ (RuleStep /\ ~(ExitCodesStep /\ Unparsable(CurrentLogs))
             => result'.retry = result.retry)
       /\ (pc = "call" => ~result'.retry)]_vars

\* C12 amended: the same for a rule applied while the status is not PANIC;
\* applied with status PANIC the rule leaves the result as it is.
C12_ParseFailureSetsRetryUnlessPanic ==
    [][/\ (ExitCodesStep /\ Unparsable(CurrentLogs) /\ result.status # "PANIC")
             => StopsAtFirstUnparsable
       /\ (ExitCodesStep /\ result.status = "PANIC" => result' = result)
       /\ (RuleStep /\ ~(ExitCodesStep /\ Unparsable(CurrentLogs))
             => result'.retry = result.retry)
       /\ (pc = "call" => ~result'.retry)]_vars

\* after 3 was reported the capture 1x failed to parse and 4 was left alone
C12_Witness ==
    /\ pc = "loop"
    /\ entry_i = 2
    /\ config[1].mode = "exit_codes"
    /\ log_data[1].logs = << <<"3">>, <<"1", "x">>, <<"4">> >>
    /\ ir_watchdog_status = "OK"
    /\ result.retry
    /\ result.status = "FAILED"
    /\ Len(result.errors) = 2

\* C13: an exit_codes rule whose captured sequence is empty appends "Missing
\* exit code!" and turns the status SUCCESS into FAILED.
C13_MissingExitCode ==
    [][(ExitCodesStep /\ CurrentLogs = <<>>)
          => /\ NewErrors = << <<"Missing exit code!">> >>
             /\ (result.status = "SUCCESS" => result'.status = "FAILED")]_vars

\* the expectations of an expect_stdout rule (the text after the prefix), its
\* observed lines, and the expectations no observed line contains
ExpectationsOf(logs) ==
    LET marked == SelectSeq(logs, LAMBDA line :
                                StartsWith(line, TORTILLAS_EXPECT_PREFIX))
    IN [k \in 1..Len(marked) |->
           SubSeq(marked[k], Len(TORTILLAS_EXPECT_PREFIX) + 1, Len(marked[k]))]

ObservedOf(logs) ==
    SelectSeq(logs, LAMBDA line : ~StartsWith(line, TORTILLAS_EXPECT_PREFIX))

UnmetOf(logs) ==
    SelectSeq(ExpectationsOf(logs),
              LAMBDA E : \A k \in 1..Len(ObservedOf(logs)) :
                            ~Contains(Strip(E), ObservedOf(logs)[k]))

\* C14: an expect_stdout rule appends "Expected output: " + E for each unmet
\* expectation E in order, then one fenced "Actual output" block of the
\* observed lines, and applies set_status; with every expectation met it
\* appends nothing and leaves the status.
C14_ExpectStdoutErrors ==
    [][(RuleStep /\ CurrentEntry.mode = "expect_stdout" /\ CurrentLogs # <<>>)
          => LET unmet == UnmetOf(CurrentLogs) IN
             IF unmet = <<>>
             THEN result' = result
             ELSE /\ NewErrors =
                       [k \in 1..Len(unmet) |->
                           <<"Expected output: ">> \o unmet[k]]
                       \o << <<"Actual output:\n", Fence, "\n">>
                             \o Join(ObservedOf(CurrentLogs))
                             \o <<"\n", Fence>> >>
                  /\ (CurrentEntry.set_status # None =>
                        result'.status = CurrentEntry.set_status)]_vars

\* C15: for a disabled spec analyze returns status DISABLED, no errors and
\* retry = false, whatever the log data and the watchdog status.
C15_DisabledResult ==
    (pc = "returned" /\ test_spec.disabled)
    => result = [status |-> "DISABLED", errors |-> <<>>, retry |-> FALSE]

\* analyze returned for a disabled spec whose watchdog was stopped and whose
\* log data holds captures of an error rule
C15_Witness ==
    /\ pc = "returned"
    /\ test_spec.disabled
    /\ ir_watchdog_status = "STOPPED"
    /\ Len(log_data) >= 1
    /\ config[1].mode = "add_as_error"
    /\ config[1].set_status = "PANIC"
    /\ log_data[1].logs # <<>>
    /\ result.status = "DISABLED"

(***************************************************************************)
(* TestResult of test_result.py, the result class _run works on.  Its      *)
(* _set_status, add_errors and check_exit_codes have the text of those of  *)
(* log_analyzer.py, so set_status, add_errors and check_exit_codes above   *)
(* stand for them too.                                                     *)
(***************************************************************************)
\* __init__ leaves the status attribute unset unless the spec is disabled
NoStatus == "unset"

TestResult_init(spec) ==
    [status |-> IF spec.disabled THEN "DISABLED" ELSE NoStatus,
     errors |-> <<>>,
     retry  |-> FALSE]

add_execution_error(res, error) ==
    [res EXCEPT !.errors = Append(@, error), !.status = "FAILED"]

StdoutName == <<"stdout", 0>>

HasKey(ld, name) == \E i \in 1..Len(ld) : ld[i].name = name

Lookup(ld, name) == ld[CHOOSE i \in 1..Len(ld) : ld[i].name = name].logs

TestResult_check_expect_stdout(res, expect_stdout, stdout, status) ==
    IF expect_stdout = <<>> THEN res
    ELSE LET missing == missing_outputs(expect_stdout, stdout) IN
         IF missing = <<>> THEN res
         ELSE set_status(
                [res EXCEPT !.errors =
                    @ \o missing
                      \o << <<"Actual output:\n">> \o Join(stdout) >>],
                status)

\* one iteration of the loop of TestResult.analyze; raised: a KeyError
TestResult_analyze_entry(res, spec, entry, ld) ==
    LET logs   == Lookup(ld, entry.label)
        status == entry.status
        ok(r)  == [raised |-> FALSE, res |-> r]
    IN
    IF logs = <<>> THEN ok(res)
    ELSE CASE entry.mode = "add_as_error" ->
                ok(add_errors(res, logs, status))
           [] entry.mode = "add_as_error_join" ->
                ok(add_errors(res, <<Join(logs)>>, status))
           [] entry.mode = "expect_stdout" ->
                IF HasKey(ld, StdoutName)
                THEN ok(TestResult_check_expect_stdout(
                            res, logs, Lookup(ld, StdoutName), status))
                ELSE [raised |-> TRUE, res |-> res]
           [] entry.mode = "exit_codes" ->
                ok(check_exit_codes(res, logs,
                                    IF spec.expect_exit_codes = <<>>
                                    THEN <<0>> ELSE spec.expect_exit_codes,
                                    status))
           [] OTHER -> ok(res)

RECURSIVE TestResult_analyze_from(_, _, _, _, _)
TestResult_analyze_from(res, spec, cfg, ld, i) ==
    IF i > Len(cfg) THEN [raised |-> FALSE, res |-> res]
    ELSE LET step == TestResult_analyze_entry(res, spec, cfg[i], ld) IN
         IF step.raised THEN step
         ELSE TestResult_analyze_from(step.res, spec, cfg, ld, i + 1)

\* TestResult.analyze(log_data)
TestResult_analyze(res, spec, cfg, ld) ==
    TestResult_analyze_from([res EXCEPT !.status = "SUCCESS"], spec, cfg,
                            ld, 1)

\* the execution errors, with a STOPPED watchdog asking for a retry as well
run_execution_errors_retry(result0, spec, res) ==
    LET r1 == IF res = "TIMEOUT" /\ ~spec.expect_timeout
              THEN add_execution_error(result0, <<"Test execution timeout">>)
              ELSE result0
    IN
    IF res = "STOPPED"
    THEN [add_execution_error(r1, <<"Test killed, because no more ",
                                    "interrupts were comming">>)
             EXCEPT !.retry = TRUE]
    ELSE r1

\* _run: the execution errors recorded after wait_until returned `res`
run_execution_errors(result0, spec, res) ==
    LET r1 == IF res = "TIMEOUT" /\ ~spec.expect_timeout
              THEN add_execution_error(result0, <<"Test execution timeout">>)
              ELSE result0
    IN
    IF res = "STOPPED"
    THEN add_execution_error(r1, <<"Test killed, because no more ",
                                   "interrupts were comming">>)
    ELSE r1

(***************************************************************************)
(* QemuInterface and one execution of _run, a step per statement that      *)
(* touches the pipes, the child process or the monitor.  Writing a monitor *)
(* command raises BrokenPipeError once the child, the only reader of the   *)
(* input pipe, has exited.  The child lives at least until the input pipe  *)
(* is open.                                                                *)
(***************************************************************************)
SupportedArch == {"x86_64", "x86/64", "x86_32", "x86/32"}

\* QemuInterface.is_alive: process.poll() is None while the child runs and
\* its exit code afterwards
is_alive == process \in {"running", "exit0"}

\* an exception leaves _run: the worker thread ends
Raise(name) ==
    /\ exc' = name
    /\ run_pc' = "raised"

run_prepare ==
    /\ run_pc = "start"
    /\ \/ /\ run_pc' = "enter_mkfifo"
          /\ UNCHANGED exc
       \/ Raise("CalledProcessError")
    /\ UNCHANGED <<la_vars, arch, returning, callbacks, qemu_vars>>
    /\ UNCHANGED <<sched_vars, wd_vars, lp_vars, ea_vars, snap_vars, twice_vars, runner_vars, scan_vars>>

enter_mkfifo ==
    /\ run_pc = "enter_mkfifo"
    /\ scope' = "entering"
    /\ fifo_in' = TRUE
    /\ fifo_out' = TRUE
    /\ run_pc' = "enter_popen"
    /\ UNCHANGED <<la_vars, arch, exc, returning, callbacks, process, input,
                   int_log, monitor>>
    /\ UNCHANGED <<sched_vars, wd_vars, lp_vars, ea_vars, snap_vars, twice_vars, runner_vars, scan_vars>>

enter_popen ==
    /\ run_pc = "enter_popen"
    /\ IF arch \notin SupportedArch
       THEN /\ Raise("NotImplementedError")
            /\ scope' = "left"
            /\ UNCHANGED process
       ELSE \/ /\ process' = "running"
               /\ run_pc' = "enter_open_input"
               /\ UNCHANGED <<exc, scope>>
            \/ /\ Raise("FileNotFoundError")
               /\ scope' = "left"
               /\ UNCHANGED process
    /\ UNCHANGED <<la_vars, arch, returning, callbacks, fifo_in, fifo_out,
                   input, int_log, monitor>>
    /\ UNCHANGED <<sched_vars, wd_vars, lp_vars, ea_vars, snap_vars, twice_vars, runner_vars, scan_vars>>

enter_open_input ==
    /\ run_pc = "enter_open_input"
    /\ input' = "open"
    /\ run_pc' = "enter_watchdog_start"
    /\ UNCHANGED <<la_vars, arch, exc, returning, callbacks, scope, fifo_in,
                   fifo_out, process, int_log, monitor>>
    /\ UNCHANGED <<sched_vars, wd_vars, lp_vars, ea_vars, snap_vars, twice_vars, runner_vars, scan_vars>>

enter_watchdog_start ==
    /\ run_pc = "enter_watchdog_start"
    /\ int_log' = TRUE
    /\ IF process = "running"
       THEN /\ monitor' = monitor \o <<"logfile", "log int">>
            /\ scope' = "inside"
            /\ run_pc' = "is_alive"
            /\ UNCHANGED exc
       ELSE /\ Raise("BrokenPipeError")
            /\ scope' = "left"
            /\ UNCHANGED monitor
    /\ UNCHANGED <<la_vars, arch, returning, callbacks, fifo_in, fifo_out,
                   process, input>>
    /\ UNCHANGED <<sched_vars, wd_vars, lp_vars, ea_vars, snap_vars, twice_vars, runner_vars, scan_vars>>

\* the check of is_alive that returns without asking for a retry
body_is_alive_no_retry ==
    /\ run_pc = "is_alive"
    /\ IF is_alive
       THEN /\ run_pc' = "sweb_input"
            /\ UNCHANGED <<result, returning, callbacks, scope>>
       ELSE /\ callbacks' = callbacks + 1
            /\ returning' = TRUE
            /\ scope' = "exiting"
            /\ run_pc' = "exit_stop"
            /\ UNCHANGED result
    /\ UNCHANGED <<test_spec, config, log_data, ir_watchdog_status, pc,
                   entry_i, arch, exc, fifo_in, fifo_out, process, input,
                   int_log, monitor>>
    /\ UNCHANGED <<sched_vars, wd_vars, lp_vars, ea_vars, snap_vars, twice_vars, runner_vars, scan_vars>>

\* _run: `if not qemu.is_alive(): test.result.retry = True; callback; return`
body_is_alive ==
    /\ run_pc = "is_alive"
    /\ IF is_alive
       THEN /\ run_pc' = "sweb_input"
            /\ UNCHANGED <<result, returning, callbacks, scope>>
       ELSE /\ result' = [result EXCEPT !.retry = TRUE]
            /\ callbacks' = callbacks + 1
            /\ returning' = TRUE
            /\ scope' = "exiting"
            /\ run_pc' = "exit_stop"
    /\ UNCHANGED <<test_spec, config, log_data, ir_watchdog_status, pc,
                   entry_i, arch, exc, fifo_in, fifo_out, process, input,
                   int_log, monitor>>
    /\ UNCHANGED <<sched_vars, wd_vars, lp_vars, ea_vars, snap_vars, twice_vars, runner_vars, scan_vars>>

body_sweb_input ==
    /\ run_pc = "sweb_input"
    /\ IF process = "running"
       THEN /\ monitor' = Append(monitor, "sendkey test")
            /\ run_pc' = "wait_until"
            /\ UNCHANGED <<exc, scope>>
       ELSE /\ exc' = "BrokenPipeError"
            /\ scope' = "exiting"
            /\ run_pc' = "exit_stop"
            /\ UNCHANGED monitor
    /\ UNCHANGED <<la_vars, arch, returning, callbacks, fifo_in, fifo_out,
                   process, input, int_log>>
    /\ UNCHANGED <<sched_vars, wd_vars, lp_vars, ea_vars, snap_vars, twice_vars, runner_vars, scan_vars>>

body_wait_until ==
    /\ run_pc = "wait_until"
    /\ \E res \in WatchdogStatus : ir_watchdog_status' = res
    /\ run_pc' = "record"
    /\ UNCHANGED <<test_spec, config, log_data, result, pc, entry_i,
                   arch, exc, returning, callbacks, qemu_vars>>
    /\ UNCHANGED <<sched_vars, wd_vars, lp_vars, ea_vars, snap_vars, twice_vars, runner_vars, scan_vars>>

body_record ==
    /\ run_pc = "record"
    /\ result' = run_execution_errors(result, test_spec, ir_watchdog_status)
    /\ scope' = "exiting"
    /\ run_pc' = "exit_stop"
    /\ UNCHANGED <<test_spec, config, log_data, ir_watchdog_status, pc,
                   entry_i, arch, exc, returning, callbacks, fifo_in,
                   fifo_out, process, input, int_log, monitor>>
    /\ UNCHANGED <<sched_vars, wd_vars, lp_vars, ea_vars, snap_vars, twice_vars, runner_vars, scan_vars>>

exit_stop ==
    /\ run_pc = "exit_stop"
    /\ IF process = "running"
       THEN /\ monitor' = Append(monitor, "log none")
            /\ int_log' = FALSE
            /\ run_pc' = "exit_quit"
            /\ UNCHANGED <<exc, scope>>
       ELSE /\ Raise("BrokenPipeError")
            /\ scope' = "left"
            /\ UNCHANGED <<monitor, int_log>>
    /\ UNCHANGED <<la_vars, arch, returning, callbacks, fifo_in, fifo_out,
                   process, input>>
    /\ UNCHANGED <<sched_vars, wd_vars, lp_vars, ea_vars, snap_vars, twice_vars, runner_vars, scan_vars>>

exit_quit ==
    /\ run_pc = "exit_quit"
    /\ IF is_alive
       THEN IF process = "running"
            THEN /\ monitor' = Append(monitor, "quit")
                 /\ process' = "exit0"
                 /\ run_pc' = "exit_close"
                 /\ UNCHANGED <<exc, scope>>
            ELSE /\ Raise("BrokenPipeError")
                 /\ scope' = "left"
                 /\ UNCHANGED <<monitor, process>>
       ELSE /\ run_pc' = "exit_close"
            /\ UNCHANGED <<exc, scope, monitor, process>>
    /\ UNCHANGED <<la_vars, arch, returning, callbacks, fifo_in, fifo_out,
                   input, int_log>>
    /\ UNCHANGED <<sched_vars, wd_vars, lp_vars, ea_vars, snap_vars, twice_vars, runner_vars, scan_vars>>

exit_close ==
    /\ run_pc = "exit_close"
    /\ process # "running"
    /\ input' = "closed"
    /\ fifo_in' = FALSE
    /\ fifo_out' = FALSE
    /\ scope' = "left"
    /\ run_pc' = IF exc # None THEN "raised"
                 ELSE IF returning THEN "returned" ELSE "analyze"
    /\ UNCHANGED <<la_vars, arch, exc, returning, callbacks, process,
                   int_log, monitor>>
    /\ UNCHANGED <<sched_vars, wd_vars, lp_vars, ea_vars, snap_vars, twice_vars, runner_vars, scan_vars>>

run_analyze ==
    /\ run_pc = "analyze"
    /\ LET a == TestResult_analyze(result, test_spec, config, log_data) IN
       IF a.raised
       THEN /\ Raise("KeyError")
            /\ UNCHANGED result
       ELSE /\ result' = a.res
            /\ run_pc' = "callback"
            /\ UNCHANGED exc
    /\ UNCHANGED <<test_spec, config, log_data, ir_watchdog_status, pc,
                   entry_i, arch, returning, callbacks, qemu_vars>>
    /\ UNCHANGED <<sched_vars, wd_vars, lp_vars, ea_vars, snap_vars, twice_vars, runner_vars, scan_vars>>

run_callback ==
    /\ run_pc = "callback"
    /\ callbacks' = callbacks + 1
    /\ run_pc' = "returned"
    /\ UNCHANGED <<la_vars, arch, exc, returning, qemu_vars>>
    /\ UNCHANGED <<sched_vars, wd_vars, lp_vars, ea_vars, snap_vars, twice_vars, runner_vars, scan_vars>>

\* the emulator exits on its own
process_exits ==
    /\ process = "running"
    /\ input = "open"
    /\ run_pc \notin {"returned", "raised"}
    /\ \E code \in {"exit0", "exit1"} : process' = code
    /\ UNCHANGED <<la_vars, arch, run_pc, exc, returning, callbacks, scope,
                   fifo_in, fifo_out, input, int_log, monitor>>
    /\ UNCHANGED <<sched_vars, wd_vars, lp_vars, ea_vars, snap_vars, twice_vars, runner_vars, scan_vars>>

\* the inputs of _run
RunModes == {"add_as_error", "add_as_error_join", "expect_stdout",
             "exit_codes"}

RunLogsOf(mode) ==
    CASE mode = "expect_stdout" -> { << <<"A">> >>, << <<"B">> >> }
      [] mode = "exit_codes" -> { << <<"0">> >>, << <<"1", "x">> >> }
      [] OTHER -> { <<>>, << <<"b", "a", "d", "\n">> >> }

RunRuleOptions ==
    UNION {{[mode |-> m, set_status |-> st, logs |-> l] : l \in RunLogsOf(m)} :
              m \in RunModes, st \in SetStatuses}

RunScenarios == UNION {[1..n -> RunRuleOptions] : n \in 0..MaxRunRules}

\* the config entry and the captured lines of the "stdout" parse rule
RunConfigOf(opts) ==
    [i \in DOMAIN opts |-> [label |-> RuleName(i), mode |-> opts[i].mode,
                            status |-> opts[i].set_status]]

StdoutEntry == [label |-> StdoutName, mode |-> "", status |-> None]

StdoutData == [name |-> StdoutName, logs |-> << <<"A">> >>]

InitRun ==
    /\ test_spec \in {s \in TestSpecs : ~s.disabled /\ s.expect_exit_codes = <<>>}
    /\ ir_watchdog_status = None
    /\ \E opts \in RunScenarios, stdout \in BOOLEAN :
          /\ config = RunConfigOf(opts) \o (IF stdout THEN <<StdoutEntry>> ELSE <<>>)
          /\ log_data = LogDataOf(opts) \o (IF stdout THEN <<StdoutData>> ELSE <<>>)
    /\ result = TestResult_init(test_spec)
    /\ pc = "idle"
    /\ entry_i = 1
    /\ arch \in {"x86_64", "x86_32", "arm"}
    /\ run_pc = "start"
    /\ scope = "outside"
    /\ fifo_in = FALSE
    /\ fifo_out = FALSE
    /\ process = "none"
    /\ input = "unset"
    /\ int_log = FALSE
    /\ exc = None
    /\ returning = FALSE
    /\ monitor = <<>>
    /\ callbacks = 0
    /\ SchedIdle
    /\ WdIdle
    /\ LpIdle
    /\ EaIdle
    /\ SnapIdle
    /\ TwiceIdle
    /\ RunnerIdle
    /\ ScanIdle

NextRun ==
    \/ run_prepare
    \/ enter_mkfifo
    \/ enter_popen
    \/ enter_open_input
    \/ enter_watchdog_start
    \/ body_is_alive
    \/ body_sweb_input
    \/ body_wait_until
    \/ body_record
    \/ exit_stop
    \/ exit_quit
    \/ exit_close
    \/ run_analyze
    \/ run_callback
    \/ process_exits

SpecRun == InitRun /\ [][NextRun]_vars

(***************************************************************************)
(* Properties of the QemuInterface scope and of _run                       *)
(***************************************************************************)
\* C6: once a QemuInterface scope was entered, or its entry attempted, and
\* has been left on any path, both monitor pipes are absent and the child
\* emulator process has terminated.
C6_ScopeLeftClean ==
    scope = "left" => ~fifo_in /\ ~fifo_out /\ process # "running"

\* C8: for a spec with expect_timeout = false, when the watchdog returned
\* TIMEOUT the result stored for the run holds the error "Test execution
\* timeout" and its final status is not SUCCESS.
C8_TimeoutNeverSuccess ==
    (/\ run_pc \in {"callback", "returned"}
     /\ ~returning
     /\ ir_watchdog_status = "TIMEOUT"
     /\ ~test_spec.disabled
     /\ ~test_spec.expect_timeout)
    => /\ \E i \in 1..Len(result.errors) :
             result.errors[i] = <<"Test execution timeout">>
       /\ result.status # "SUCCESS"


(***************************************************************************)
(* TestRunner.start.  The main thread takes a step per statement that      *)
(* reads or writes test_queue or running_tests; run_test and the callback  *)
(* hold the lock.  A worker thread runs _run for one test run: it ends by  *)
(* an exception that no one catches, or it reaches the callback, either    *)
(* from inside the QemuInterface scope with retry set (the emulator was    *)
(* not alive) or after test.analyze() with the analysed result.            *)
(***************************************************************************)
Runs == 1..NumRuns

RECURSIVE Reverse(_)
Reverse(seq) ==
    IF seq = <<>> THEN <<>> ELSE Append(Reverse(Tail(seq)), Head(seq))

\* ProgressBar.update_counter
update_counter(cs, counter, from_counter, incr) ==
    IF from_counter # None
    THEN [cs EXCEPT ![counter] = @ + incr, ![from_counter] = @ - incr]
    ELSE [cs EXCEPT ![counter] = @ + incr]

\* every registered run belongs to a spec that is not disabled
SchedSpec ==
    [disabled |-> FALSE, expect_timeout |-> FALSE, expect_exit_codes |-> <<>>]

SchedConfig ==
    << [label |-> RuleName(1), mode |-> "add_as_error", status |-> "PANIC"],
       [label |-> RuleName(2), mode |-> "exit_codes", status |-> "FAILED"] >>

SchedLogData ==
    {<< [name |-> RuleName(1), logs |-> p],
        [name |-> RuleName(2), logs |-> c] >> :
        p \in {<<>>, << <<"KERNEL PANIC">> >>},
        c \in {<< <<"0">> >>, << <<"1">> >>, << <<"x">> >>}}

\* the results _run can hand to the callback after test.analyze()
AnalyzedResults ==
    {TestResult_analyze(
         run_execution_errors(TestResult_init(SchedSpec), SchedSpec, wd),
         SchedSpec, SchedConfig, ld).res :
        wd \in {"OK", "TIMEOUT"}, ld \in SchedLogData}

\* `len(running_tests) < self.config.threads` admitting one run too many
can_start_off_by_one(running, limit) == running <= limit

\* `len(running_tests) < self.config.threads`
can_start(running, limit) == running < limit

\* run_test taking the run at the front of the queue (`test_queue.pop(0)`)
run_test_fifo ==
    /\ lock = "free"
    /\ LET test == test_queue[1] IN
       /\ test_queue' = Tail(test_queue)
       /\ counters' = update_counter(counters, "RUNNING", None, 1)
       /\ running_tests' = running_tests \cup {test}
       /\ thread_pc' = [thread_pc EXCEPT ![test] = "run"]
    /\ UNCHANGED <<lock, results, enqueues>>

\* run_test: under the lock, pop a run, count it and start its thread
run_test ==
    /\ lock = "free"
    /\ LET test == test_queue[Len(test_queue)] IN
       /\ test_queue' = SubSeq(test_queue, 1, Len(test_queue) - 1)
       /\ counters' = update_counter(counters, "RUNNING", None, 1)
       /\ running_tests' = running_tests \cup {test}
       /\ thread_pc' = [thread_pc EXCEPT ![test] = "run"]
    /\ UNCHANGED <<lock, results, enqueues>>

\* for _ in range(self.config.threads): if test_queue: run_test(test_queue)
main_fill ==
    /\ main_pc = "fill"
    /\ fill_i < threads
    /\ fill_i' = fill_i + 1
    /\ IF test_queue # <<>>
       THEN run_test
       ELSE UNCHANGED <<test_queue, counters, running_tests, thread_pc,
                        lock, results, enqueues>>
    /\ UNCHANGED <<threads, test_runs, main_pc, success, exit_status>>
    /\ UNCHANGED <<la_vars, run_vars, wd_vars, lp_vars, ea_vars, snap_vars, twice_vars, runner_vars, scan_vars>>

main_fill_done ==
    /\ main_pc = "fill"
    /\ fill_i = threads
    /\ main_pc' = "while_queue"
    /\ UNCHANGED <<threads, test_runs, test_queue, running_tests, lock,
                   results, thread_pc, fill_i, counters, enqueues, success,
                   exit_status>>
    /\ UNCHANGED <<la_vars, run_vars, wd_vars, lp_vars, ea_vars, snap_vars, twice_vars, runner_vars, scan_vars>>

\* `while test_queue or running_tests`: the left operand
main_while_queue ==
    /\ main_pc = "while_queue"
    /\ main_pc' = IF test_queue # <<>> THEN "body" ELSE "while_running"
    /\ UNCHANGED <<threads, test_runs, test_queue, running_tests, lock,
                   results, thread_pc, fill_i, counters, enqueues, success,
                   exit_status>>
    /\ UNCHANGED <<la_vars, run_vars, wd_vars, lp_vars, ea_vars, snap_vars, twice_vars, runner_vars, scan_vars>>

\* `while test_queue or running_tests`: the right operand
main_while_running ==
    /\ main_pc = "while_running"
    /\ main_pc' = IF running_tests # {} THEN "body" ELSE "finished"
    /\ UNCHANGED <<threads, test_runs, test_queue, running_tests, lock,
                   results, thread_pc, fill_i, counters, enqueues, success,
                   exit_status>>
    /\ UNCHANGED <<la_vars, run_vars, wd_vars, lp_vars, ea_vars, snap_vars, twice_vars, runner_vars, scan_vars>>

\* `if not test_queue: time.sleep(1); continue`
main_if_not_queue ==
    /\ main_pc = "body"
    /\ main_pc' = IF test_queue = <<>> THEN "while_queue" ELSE "if_len"
    /\ UNCHANGED <<threads, test_runs, test_queue, running_tests, lock,
                   results, thread_pc, fill_i, counters, enqueues, success,
                   exit_status>>
    /\ UNCHANGED <<la_vars, run_vars, wd_vars, lp_vars, ea_vars, snap_vars, twice_vars, runner_vars, scan_vars>>

\* `if len(running_tests) < self.config.threads:`
main_if_len ==
    /\ main_pc = "if_len"
    /\ main_pc' = IF can_start(Cardinality(running_tests), threads)
                  THEN "run_test" ELSE "while_queue"
    /\ UNCHANGED <<threads, test_runs, test_queue, running_tests, lock,
                   results, thread_pc, fill_i, counters, enqueues, success,
                   exit_status>>
    /\ UNCHANGED <<la_vars, run_vars, wd_vars, lp_vars, ea_vars, snap_vars, twice_vars, runner_vars, scan_vars>>

main_run_test ==
    /\ main_pc = "run_test"
    /\ run_test
    /\ main_pc' = "while_queue"
    /\ UNCHANGED <<threads, test_runs, fill_i, success, exit_status>>
    /\ UNCHANGED <<la_vars, run_vars, wd_vars, lp_vars, ea_vars, snap_vars, twice_vars, runner_vars, scan_vars>>

\* the thread of run r executes _run up to its callback
thread_run(r) ==
    /\ r \in DOMAIN thread_pc
    /\ thread_pc[r] = "run"
    /\ \/ /\ thread_pc' = [thread_pc EXCEPT ![r] = "raised"]
          /\ UNCHANGED results
       \/ /\ results' = [results EXCEPT ![r].retry = TRUE]
          /\ thread_pc' = [thread_pc EXCEPT ![r] = "callback"]
       \/ /\ \E res \in AnalyzedResults : results' = [results EXCEPT ![r] = res]
          /\ thread_pc' = [thread_pc EXCEPT ![r] = "callback"]
    /\ UNCHANGED <<threads, test_runs, test_queue, running_tests, lock,
                   main_pc, fill_i, counters, enqueues, success, exit_status>>
    /\ UNCHANGED <<la_vars, run_vars, wd_vars, lp_vars, ea_vars, snap_vars, twice_vars, runner_vars, scan_vars>>

\* thread_callback: `with lock: running_tests.pop(repr(test_run))`
thread_callback_pop(r) ==
    /\ r \in DOMAIN thread_pc
    /\ thread_pc[r] = "callback"
    /\ lock = "free"
    /\ lock' = "locked"
    /\ running_tests' = running_tests \ {r}
    /\ thread_pc' = [thread_pc EXCEPT ![r] = "callback_locked"]
    /\ UNCHANGED <<threads, test_runs, test_queue, results, main_pc, fill_i,
                   counters, enqueues, success, exit_status>>
    /\ UNCHANGED <<la_vars, run_vars, wd_vars, lp_vars, ea_vars, snap_vars, twice_vars, runner_vars, scan_vars>>

\* the retry branch had the result an attribute `panic`: reset the result,
\* take the run out of the RUNNING count and put it back on the queue
callback_retry_reenqueue(r) ==
    /\ results' = [results EXCEPT ![r] = TestResult_init(SchedSpec)]
    /\ counters' = update_counter(counters, "RUNNING", None, -1)
    /\ test_queue' = Append(test_queue, r)
    /\ enqueues' = [enqueues EXCEPT ![r] = @ + 1]
    /\ thread_pc' = [thread_pc EXCEPT ![r] = "idle"]

\* thread_callback, the branch `if test_run.result.retry:`.  Its second
\* statement reads test_run.result.panic, and TestResult of test_result.py
\* has no attribute of that name: AttributeError ends the thread before the
\* result is replaced and the run appended to test_queue.  A result that
\* was never analysed comes from the callback that _run makes inside its
\* `with QemuInterface` block: there the exception still has to pass __exit__
callback_retry(r) ==
    /\ thread_pc' = [thread_pc EXCEPT ![r] =
                         IF results[r].status = NoStatus
                         THEN "callback_teardown" ELSE "callback_raised"]
    /\ UNCHANGED <<results, counters, test_queue, enqueues>>

\* thread_callback after the pop; leaving `with lock` releases the lock
thread_callback_rest(r) ==
    /\ r \in DOMAIN thread_pc
    /\ thread_pc[r] = "callback_locked"
    /\ lock' = "free"
    /\ IF results[r].retry
       THEN callback_retry(r)
       ELSE /\ counters' = update_counter(
                              counters,
                              IF results[r].status = "SUCCESS"
                              THEN "SUCCESS" ELSE "FAIL",
                              "RUNNING", 1)
            /\ thread_pc' = [thread_pc EXCEPT ![r] = "finished"]
            /\ UNCHANGED <<results, test_queue, enqueues>>
    /\ UNCHANGED <<threads, test_runs, running_tests, main_pc, fill_i,
                   success, exit_status>>
    /\ UNCHANGED <<la_vars, run_vars, wd_vars, lp_vars, ea_vars, snap_vars, twice_vars, runner_vars, scan_vars>>

\* QemuInterface.__exit__ of the run whose callback was made inside the
\* with block; after it the exception ends the thread
thread_teardown(r) ==
    /\ r \in DOMAIN thread_pc
    /\ thread_pc[r] = "callback_teardown"
    /\ thread_pc' = [thread_pc EXCEPT ![r] = "callback_raised"]
    /\ UNCHANGED <<threads, test_runs, test_queue, running_tests, lock,
                   results, main_pc, fill_i, counters, enqueues, success,
                   exit_status>>
    /\ UNCHANGED <<la_vars, run_vars, wd_vars, lp_vars, ea_vars, snap_vars, twice_vars, runner_vars, scan_vars>>

\* any(test_run.result.status in (FAILED, PANIC) for test_run in test_runs):
\* reading the status of a result that was never analysed raises
RECURSIVE any_failed(_, _)
any_failed(runs, res) ==
    IF runs = <<>> THEN "False"
    ELSE LET status == res[Head(runs)].status IN
         IF status = NoStatus THEN "AttributeError"
         ELSE IF status \in {"FAILED", "PANIC"} THEN "True"
         ELSE any_failed(Tail(runs), res)

main_success ==
    /\ main_pc = "finished"
    /\ LET failed == any_failed(test_runs, results) IN
       IF failed = "AttributeError"
       THEN /\ main_pc' = "raised"
            /\ UNCHANGED success
       ELSE /\ main_pc' = "returned"
            /\ success' = (failed = "False")
    /\ UNCHANGED <<threads, test_runs, test_queue, running_tests, lock,
                   results, thread_pc, fill_i, counters, enqueues,
                   exit_status>>
    /\ UNCHANGED <<la_vars, run_vars, wd_vars, lp_vars, ea_vars, snap_vars, twice_vars, runner_vars, scan_vars>>

\* main: sys.exit(not test_runner.success), or the interpreter's exit after
\* the exception that left start()
main_exit ==
    /\ main_pc \in {"returned", "raised"}
    /\ exit_status' = IF main_pc = "raised" THEN 1
                      ELSE IF success THEN 0 ELSE 1
    /\ main_pc' = "exited"
    /\ UNCHANGED <<threads, test_runs, test_queue, running_tests, lock,
                   results, thread_pc, fill_i, counters, enqueues, success>>
    /\ UNCHANGED <<la_vars, run_vars, wd_vars, lp_vars, ea_vars, snap_vars, twice_vars, runner_vars, scan_vars>>

Init ==
    /\ threads \in 1..MaxThreads
    /\ \E n \in 0..NumRuns : test_runs = [i \in 1..n |-> i]
    /\ test_queue = Reverse(test_runs)
    /\ running_tests = {}
    /\ lock = "free"
    /\ results = [r \in DOMAIN test_runs |-> TestResult_init(SchedSpec)]
    /\ thread_pc = [r \in DOMAIN test_runs |-> "idle"]
    /\ main_pc = "fill"
    /\ fill_i = 0
    /\ counters = [RUNNING |-> 0, SUCCESS |-> 0, FAIL |-> 0]
    /\ enqueues = [r \in DOMAIN test_runs |-> 1]
    /\ success = FALSE
    /\ exit_status = None
    /\ test_spec = SchedSpec
    /\ config = SchedConfig
    /\ log_data = <<>>
    /\ ir_watchdog_status = None
    /\ result = TestResult_init(SchedSpec)
    /\ pc = "idle"
    /\ entry_i = 1
    /\ RunIdle
    /\ WdIdle
    /\ LpIdle
    /\ EaIdle
    /\ SnapIdle
    /\ TwiceIdle
    /\ RunnerIdle
    /\ ScanIdle

Next ==
    \/ main_fill
    \/ main_fill_done
    \/ main_while_queue
    \/ main_while_running
    \/ main_if_not_queue
    \/ main_if_len
    \/ main_run_test
    \/ main_success
    \/ main_exit
    \/ \E r \in Runs : thread_run(r)
    \/ \E r \in Runs : thread_callback_pop(r)
    \/ \E r \in Runs : thread_callback_rest(r)
    \/ \E r \in Runs : thread_teardown(r)

Spec == Init /\ [][Next]_vars

(***************************************************************************)
(* Properties of TestRunner.start                                          *)
(***************************************************************************)
Ended == {"raised", "callback_raised", "finished"}

LoopLeft == main_pc \in {"finished", "returned", "raised", "exited"}

\* C1: in every reachable state of TestRunner.start the running map holds
\* at most config.threads entries.
C1_RunningBounded == Cardinality(running_tests) <= threads

\* the pool is full while runs are still queued and the main thread is
\* about to compare the size of the running map with config.threads
C1_Witness ==
    /\ main_pc = "if_len"
    /\ test_queue # <<>>
    /\ Cardinality(running_tests) = threads

\* C2: when start has left its scheduling loop the queue is empty, the
\* running map is empty and every registered run holds a result produced by
\* a completed analysis.
C2_LoopExitAllAnalysed ==
    LoopLeft =>
        /\ test_queue = <<>>
        /\ running_tests = {}
        /\ \A r \in DOMAIN results : results[r] \in AnalyzedResults

C4_RetryCallbackReenqueues ==
    [][\A r \in DOMAIN thread_pc :
          (/\ thread_pc[r] = "callback_locked"
           /\ results[r].retry
           /\ thread_pc'[r] # "callback_locked")
          => /\ r \notin running_tests'
             /\ results'[r] = TestResult_init(SchedSpec)
             /\ counters'.RUNNING = counters.RUNNING - 1
             /\ test_queue' = Append(test_queue, r)]_vars

\* C5: once every worker thread has ended, a run whose execution raised is
\* out of the running map and carries the error.
C5_WorkerErrorRecorded ==
    (\A r \in DOMAIN thread_pc : thread_pc[r] \in Ended)
    => \A r \in DOMAIN thread_pc :
          thread_pc[r] = "raised"
          => /\ r \notin running_tests
             /\ results[r].errors # <<>>

\* C7: at the end of start, success is true exactly if no run has a status
\* among FAILED, PANIC and TIMEOUT, and the exit status is 0 exactly if
\* success is true.
C7_SuccessIffNoFailure ==
    main_pc = "exited" =>
        /\ success <=> \A r \in DOMAIN results :
                          results[r].status \notin {"FAILED", "PANIC", "TIMEOUT"}
        /\ exit_status = IF success THEN 0 ELSE 1

(***************************************************************************)
(* InterruptWatchdog of qemu_interface.py.  The interrupt log is a list of *)
(* lines, a line a sequence of characters ending in "\n".                  *)
(***************************************************************************)
\* str.split(sep) for a separator of one character
RECURSIVE Split(_, _)
Split(s, sep) ==
    IF \A i \in 1..Len(s) : s[i] # sep THEN <<s>>
    ELSE LET i == CHOOSE k \in 1..Len(s) :
                     s[k] = sep /\ \A j \in 1..(k - 1) : s[j] # sep
         IN <<SubSeq(s, 1, i - 1)>> \o Split(SubSeq(s, i + 1, Len(s)), sep)

\* line.strip('\n')
RECURSIVE StripNewlines(_)
StripNewlines(s) ==
    IF s # <<>> /\ Head(s) = "\n" THEN StripNewlines(Tail(s))
    ELSE IF s # <<>> /\ s[Len(s)] = "\n"
    THEN StripNewlines(SubSeq(s, 1, Len(s) - 1))
    ELSE s

HexDigits == Digits \cup {"a", "b", "c", "d", "e", "f"}

HexVal(c) ==
    CASE c = "a" -> 10 [] c = "b" -> 11 [] c = "c" -> 12 [] c = "d" -> 13
      [] c = "e" -> 14 [] c = "f" -> 15 [] OTHER -> DigitVal(c)

RECURSIVE HexDigitsVal(_, _)
HexDigitsVal(s, acc) ==
    IF s = <<>> THEN acc
    ELSE HexDigitsVal(Tail(s), 16 * acc + HexVal(Head(s)))

\* int(val, 16)
int16(val) ==
    IF val # <<>> /\ \A i \in 1..Len(val) : val[i] \in HexDigits
    THEN [error |-> FALSE, value |-> HexDigitsVal(val, 0)]
    ELSE [error |-> TRUE, value |-> 0]

\* regs[key] = value
SetItem(regs, key, value) ==
    [k \in DOMAIN regs \cup {key} |-> IF k = key THEN value ELSE regs[k]]

\* the loop of parse_interrupt over the pieces of interrupt.split(' ')
RECURSIVE parse_registers(_, _)
parse_registers(pieces, regs) ==
    IF pieces = <<>> THEN regs
    ELSE LET register == Head(pieces)
             parts    == Split(register, "=")
         IN
         IF \/ register = <<>>
            \/ ~Contains(<<"=">>, register)
            \/ register[Len(register)] = "="
         THEN parse_registers(Tail(pieces), regs)
         ELSE IF parts[1] = <<>> \/ parts[2] = <<>>
         THEN parse_registers(Tail(pieces), regs)
         ELSE IF int16(parts[2]).error
         THEN parse_registers(Tail(pieces), regs)
         ELSE parse_registers(Tail(pieces),
                              SetItem(regs, parts[1], int16(parts[2]).value))

parse_interrupt(interrupt) == parse_registers(Split(interrupt, " "), <<>>)

\* match_registers(search_regs, int_regs)
match_registers(search_regs, int_regs) ==
    \A reg \in DOMAIN int_regs :
        reg \in DOMAIN search_regs => search_regs[reg] = int_regs[reg]

\* the sizes search_interrupt tries: [21] + list(range(1, 30))
BlockSizes == <<21>> \o [k \in 1..29 |-> k]

\* the block size search_interrupt settles on for the line at `index`
\* (counted from 0, as in the source)
RECURSIVE block_size_from(_, _, _)
block_size_from(lines, index, k) ==
    LET block_size == BlockSizes[k] IN
    IF \/ index + block_size + 1 >= Len(lines)
       \/ Contains(<<"v", "=">>, lines[index + block_size + 1])
    THEN block_size
    ELSE IF k = Len(BlockSizes) THEN block_size
    ELSE block_size_from(lines, index, k + 1)

\* lines[index + 1 : index + block_size], stripped and joined with blanks
interrupt_text(lines, index, block_size) ==
    LET first == index + 2
        last  == IF index + block_size < Len(lines)
                 THEN index + block_size ELSE Len(lines)
        block == SubSeq(lines, first, last)
    IN Join([k \in DOMAIN block |-> StripNewlines(block[k]) \o <<" ">>])

\* search_interrupt from the line at `index` on: the registers of the first
\* matching interrupt, or None
NoInterrupt == [none |-> TRUE, registers |-> <<>>]

RECURSIVE search_interrupt_from(_, _, _, _)
search_interrupt_from(n, search_regs, lines, index) ==
    IF index >= Len(lines) THEN NoInterrupt
    ELSE IF ~Contains(<<"v", "=">> \o str(n), lines[index + 1])
    THEN search_interrupt_from(n, search_regs, lines, index + 1)
    ELSE LET registers ==
                 parse_interrupt(
                     interrupt_text(lines, index,
                                    block_size_from(lines, index, 1)))
         IN IF match_registers(search_regs, registers)
            THEN [none |-> FALSE, registers |-> registers]
            ELSE search_interrupt_from(n, search_regs, lines, index + 1)

search_interrupt(n, search_regs, lines) ==
    search_interrupt_from(n, search_regs, lines, 0)

\* `if interrupt:` is false for None and for a dict without entries
truthy(interrupt) == ~interrupt.none /\ interrupt.registers # <<>>

\* self.sleep_time, in tenths of a second
SleepTenths == 5

\* max_iterations = int(timeout / self.sleep_time)
max_iterations == (timeout * 10) \div SleepTenths

\* `for _ in range(max_iterations)` after `done` iterations
loop_continues(done, limit) == done < limit

IdleLimit == 10

\* `iterations_file_unchanged > 10` giving up two polls earlier
idle_limit_exceeded_early(unchanged) == unchanged + 2 > IdleLimit

\* `if iterations_file_unchanged > 10`
idle_limit_exceeded(unchanged) == unchanged > IdleLimit

\* one iteration of the loop of wait_until: sleep, read the lines written
\* since file_pos (counted in lines), search them, count idle iterations
wait_until_poll ==
    /\ wd_pc = "polling"
    /\ loop_continues(polls, max_iterations)
    /\ polls' = polls + 1
    /\ LET previous_position == file_pos
           lines     == SubSeq(logfile, file_pos + 1, Len(logfile))
           interrupt == search_interrupt(int_num, wait_regs, lines)
           position  == Len(logfile)
       IN
       IF truthy(interrupt)
       THEN /\ wd_res' = "OK"
            /\ wd_pc' = "returned"
            /\ UNCHANGED <<file_pos, iterations_file_unchanged>>
       ELSE /\ file_pos' = position
            /\ IF position = previous_position
               THEN IF idle_limit_exceeded(iterations_file_unchanged)
                    THEN /\ wd_res' = "STOPPED"
                         /\ wd_pc' = "returned"
                         /\ UNCHANGED iterations_file_unchanged
                    ELSE /\ iterations_file_unchanged' =
                                iterations_file_unchanged + 1
                         /\ UNCHANGED <<wd_res, wd_pc>>
               ELSE /\ iterations_file_unchanged' = 0
                    /\ UNCHANGED <<wd_res, wd_pc>>
    /\ UNCHANGED <<logfile, script, int_num, wait_regs, timeout>>
    /\ UNCHANGED <<la_vars, run_vars, sched_vars, lp_vars, ea_vars, snap_vars, twice_vars, runner_vars, scan_vars>>

\* the loop has run max_iterations times: return Status.TIMEOUT
wait_until_timeout ==
    /\ wd_pc = "polling"
    /\ ~loop_continues(polls, max_iterations)
    /\ wd_res' = "TIMEOUT"
    /\ wd_pc' = "returned"
    /\ UNCHANGED <<logfile, script, file_pos, polls,
                   iterations_file_unchanged, int_num, wait_regs, timeout>>
    /\ UNCHANGED <<la_vars, run_vars, sched_vars, lp_vars, ea_vars, snap_vars, twice_vars, runner_vars, scan_vars>>

\* the emulator appends the next line of its output to the interrupt log
emulator_writes ==
    /\ wd_pc = "polling"
    /\ script # <<>>
    /\ logfile' = Append(logfile, Head(script))
    /\ script' = Tail(script)
    /\ UNCHANGED <<file_pos, polls, iterations_file_unchanged, wd_pc, wd_res,
                   int_num, wait_regs, timeout>>
    /\ UNCHANGED <<la_vars, run_vars, sched_vars, lp_vars, ea_vars, snap_vars, twice_vars, runner_vars, scan_vars>>

\* the inputs of wait_until: the vector and registers _run waits for, the
\* timeout in seconds, and what the emulator writes meanwhile
INT_SYSCALL == 80

MaxTimeout == 7

RegName == <<"R", "A", "X">>

\* the line that opens the frame of interrupt `vector`
VectorLine(vector) ==
    <<" ", "0", ":", " ", "v", "=">> \o vector \o <<" ", "e", "=", "0", "\n">>

\* a line of a register dump that gives RAX the value of the hex digits
RaxLine(digits) ==
    RegName \o <<"=">> \o digits \o <<" ", "R", "B", "X", "=", "1", "\n">>

\* a line of a register dump without RAX
OtherLine == <<"C", "R", "0", "=", "8", " ", "C", "R", "2", "=", "0", "\n">>

Wanted == <<"2", "a">>

Unwanted == <<"0", "7">>

Repeat(line, n) == [k \in 1..n |-> line]

Scripts ==
    { \* a frame of the vector with the wanted register value
      <<VectorLine(<<"8", "0">>), RaxLine(Wanted), OtherLine>>,
      \* the same frame behind a frame of another vector
      <<VectorLine(<<"0", "e">>), RaxLine(Unwanted),
        VectorLine(<<"8", "0">>), OtherLine, RaxLine(Wanted)>>,
      \* a frame of the vector with another value, then a frame of another
      \* vector with the wanted value
      <<VectorLine(<<"8", "0">>), RaxLine(Unwanted),
        VectorLine(<<"0", "e">>), RaxLine(Wanted)>>,
      \* the wanted value in a frame of another vector only
      <<VectorLine(<<"0", "e">>), RaxLine(Wanted)>>,
      \* a frame of the usual 21 lines, followed by the next frame
      <<VectorLine(<<"8", "0">>)>> \o Repeat(OtherLine, 19)
        \o <<RaxLine(Wanted), VectorLine(<<"0", "e">>), RaxLine(Unwanted)>>,
      \* a short frame that does not match, far from the end of the log
      <<VectorLine(<<"8", "0">>), RaxLine(Unwanted),
        VectorLine(<<"0", "e">>), RaxLine(Wanted)>>
        \o Repeat(OtherLine, 2 * MaxTimeout + 8),
      \* no frame at all
      Repeat(OtherLine, 2 * MaxTimeout + 2) }

InitWD ==
    /\ logfile = <<>>
    /\ script \in Scripts
    /\ file_pos = 0
    /\ polls = 0
    /\ iterations_file_unchanged = 0
    /\ wd_pc = "polling"
    /\ wd_res = None
    /\ int_num = INT_SYSCALL
    /\ wait_regs = [r \in {RegName} |-> int16(Wanted).value]
    /\ timeout \in 0..MaxTimeout
    /\ test_spec = SchedSpec
    /\ config = <<>>
    /\ log_data = <<>>
    /\ ir_watchdog_status = None
    /\ result = TestResult_init(SchedSpec)
    /\ pc = "idle"
    /\ entry_i = 1
    /\ RunIdle
    /\ SchedIdle
    /\ LpIdle
    /\ EaIdle
    /\ SnapIdle
    /\ TwiceIdle
    /\ RunnerIdle
    /\ ScanIdle

NextWD == wait_until_poll \/ wait_until_timeout \/ emulator_writes

SpecWD == InitWD /\ [][NextWD]_vars

\* ---------------------------------------------------------------------
\* Properties of wait_until
\* ---------------------------------------------------------------------

\* a line that opens a frame, of any vector
IsVectorLine(line) == Contains(<<"v", "=">>, line)

\* line i of the trace opens a frame of the vector wait_until waits for
OpensFrame(trace, i) == Contains(<<"v", "=">> \o str(int_num), trace[i])

\* the last line of the frame that line i opens: the line before the next
\* line that opens a frame, or the last line of the trace
RECURSIVE FrameEnd(_, _)
FrameEnd(trace, i) ==
    IF i = Len(trace) \/ IsVectorLine(trace[i + 1]) THEN i
    ELSE FrameEnd(trace, i + 1)

\* the registers of the frame's own lines
OwnRegisters(trace, i) ==
    LET block == SubSeq(trace, i + 1, FrameEnd(trace, i))
    IN parse_interrupt(
           Join([k \in DOMAIN block |-> StripNewlines(block[k]) \o <<" ">>]))

\* the frame at line i has the vector, and its own registers agree with the
\* constrained ones it has
FrameMatches(trace, i) ==
    /\ OpensFrame(trace, i)
    /\ match_registers(wait_regs, OwnRegisters(trace, i))

\* the frame at line i has the vector and every constrained register, with
\* the wanted value
FrameMatchesFully(trace, i) ==
    /\ FrameMatches(trace, i)
    /\ \A reg \in DOMAIN wait_regs : reg \in DOMAIN OwnRegisters(trace, i)

\* the emulator has written the whole frame that line i of the log opens
FrameComplete(i) ==
    \/ FrameEnd(logfile, i) < Len(logfile)
    \/ script = <<>>
    \/ IsVectorLine(Head(script))

\* a step that is one iteration of the loop of wait_until
Poll == wd_pc = "polling" /\ polls' = polls + 1

\* an iteration that finds nothing new in the log
IdlePoll == Poll /\ Len(logfile) = file_pos

\* an iteration that finds new lines in the log
GrowthPoll == Poll /\ Len(logfile) > file_pos

\* C16: wait_until returns OK only if the trace holds a frame of the vector
\* int_num whose own register lines (up to the next frame, not a
\* neighbour's) agree with regs on every constrained register they give.
C16_OkOnlyOnOwnFrame ==
    wd_res = "OK" => \E i \in 1..Len(logfile) : FrameMatches(logfile, i)

\* C17: once the emulator has written a complete frame that matches
\* (int_num, regs), the iteration that follows returns OK, however the
\* lines of the frame were spread over the iterations before.
C17_CompleteFrameFound ==
    [][(Poll /\ \E i \in 1..Len(logfile) :
                    FrameComplete(i) /\ FrameMatchesFully(logfile, i))
       => wd_res' = "OK"]_vars

\* C18: wait_until makes at most floor(timeout / sleep_time) iterations and
\* returns one of OK, TIMEOUT, STOPPED; while no frame matches and the
\* iterations find new lines it does not return before the iterations are
\* used up, so it returns TIMEOUT.
C18_ReturnsWithinBound ==
    [][/\ polls' <= max_iterations
       /\ wd_pc' = "returned" => wd_res' \in {"OK", "TIMEOUT", "STOPPED"}
       /\ (GrowthPoll /\ ~\E i \in 1..Len(logfile) : FrameMatches(logfile, i))
          => wd_pc' = "polling"
       /\ (wd_pc' = "returned" /\ ~loop_continues(polls, max_iterations))
          => wd_res' = "TIMEOUT"]_vars

\* an idle iteration returns STOPPED exactly when it is the n-th idle
\* iteration in a row, and counts otherwise; an iteration that finds new
\* lines and no interrupt starts the count again
StopsOn(n) ==
    /\ IdlePoll =>
           IF iterations_file_unchanged = n - 1
           THEN wd_res' = "STOPPED" /\ wd_pc' = "returned"
           ELSE /\ wd_res' = None /\ wd_pc' = "polling"
                /\ iterations_file_unchanged' = iterations_file_unchanged + 1
    /\ (GrowthPoll /\ wd_res' # "OK") =>
           /\ iterations_file_unchanged' = 0
           /\ wd_res' = None /\ wd_pc' = "polling"

\* C19: wait_until returns STOPPED once ten iterations in a row found no new
\* bytes; an iteration that finds new bytes sets the count to zero; STOPPED
\* is not returned on fewer idle iterations in a row.
C19_StoppedAfterTenIdle == [][StopsOn(10)]_vars

\* C19, as the code has it: STOPPED is returned on the twelfth idle iteration
\* in a row (the count is compared with 10 before it is incremented), an
\* iteration that finds new bytes sets the count to zero, and STOPPED is not
\* returned on fewer than twelve idle iterations in a row.
C19_StoppedAfterTwelveIdle == [][StopsOn(IdleLimit + 2)]_vars

\* STOPPED was returned after an iteration had found new lines and set the
\* count to zero
C19_Witness == wd_res = "STOPPED" /\ file_pos > 0

\* ---------------------------------------------------------------------
\* log_parser.py: LogParser.parse
\* ---------------------------------------------------------------------

MaxParseRules == 2

MaxMatches == 2

\* str.strip(chars)
RECURSIVE StripChars(_, _)
StripChars(s, chars) ==
    IF s # <<>> /\ Head(s) \in chars THEN StripChars(Tail(s), chars)
    ELSE IF s # <<>> /\ s[Len(s)] \in chars
    THEN StripChars(SubSeq(s, 1, Len(s) - 1), chars)
    ELSE s

\* debug_log_type = match.group(1).strip('[]: ')
debug_log_type_of(group1) == StripChars(group1, {"[", "]", ":", " "})

\* the position of the first occurrence of `literal` in `message`, 0 if none
RECURSIVE find_from(_, _, _)
find_from(literal, message, i) ==
    IF i + Len(literal) - 1 > Len(message) THEN 0
    ELSE IF SubSeq(message, i, i + Len(literal) - 1) = literal THEN i
    ELSE find_from(literal, message, i + 1)

\* the position of the last occurrence of `literal` in `message`, 0 if none
RECURSIVE find_last_from(_, _, _)
find_last_from(literal, message, i) ==
    IF i < 1 THEN 0
    ELSE IF /\ i + Len(literal) - 1 <= Len(message)
            /\ SubSeq(message, i, i + Len(literal) - 1) = literal THEN i
    ELSE find_last_from(literal, message, i - 1)

\* search that takes the last occurrence of the literal
pattern_search_last(literal, message) ==
    LET at == find_last_from(literal, message, Len(message)) IN
    IF at = 0 THEN [found |-> FALSE, group1 |-> <<>>]
    ELSE [found |-> TRUE,
          group1 |-> SubSeq(message, at + Len(literal), Len(message))]

\* config_entry.pattern_compiled.search(message) for a pattern `literal(.*)`
\* compiled with re.DOTALL: group 1 is all that follows the first occurrence
pattern_search(literal, message) ==
    LET at == find_from(literal, message, 1) IN
    IF at = 0 THEN [found |-> FALSE, group1 |-> <<>>]
    ELSE [found |-> TRUE,
          group1 |-> SubSeq(message, at + Len(literal), Len(message))]

\* the scope test that lets every entry look at every block
scope_applies_to_all(entry_scope, debug_log_type) == TRUE

\* not (config_entry.scope not in ('ALL', debug_log_type))
scope_applies(entry_scope, debug_log_type) ==
    entry_scope \in {<<"A", "L", "L">>, debug_log_type}

\* the labels of the entries of a configuration
Labels(cfg) == {cfg[i].label : i \in DOMAIN cfg}

\* {entry.label: [] for entry in self.config}, with the keys of the first
\* entry only
empty_log_data_first_entry(cfg) ==
    [l \in {cfg[i].label : i \in DOMAIN cfg \cap {1}} |-> <<>>]

\* {entry.label: [] for entry in self.config}
empty_log_data(cfg) == [l \in Labels(cfg) |-> <<>>]

\* parse up to the loop over the matches: the dict is created
parse_begin ==
    /\ lp_pc = "start"
    /\ parsed' = empty_log_data(parse_config)
    /\ match_i' = 1
    /\ rule_i' = 1
    /\ lp_pc' = "matching"
    /\ UNCHANGED <<parse_config, matches>>
    /\ UNCHANGED <<la_vars, run_vars, sched_vars, wd_vars, ea_vars, snap_vars, twice_vars, runner_vars, scan_vars>>

\* one iteration of `for config_entry in self.config` for the current match;
\* log_data[config_entry.label] raises KeyError for a key the dict lacks
parse_entry ==
    /\ lp_pc = "matching"
    /\ match_i <= Len(matches)
    /\ rule_i <= Len(parse_config)
    /\ LET match          == matches[match_i]
           debug_log_type == debug_log_type_of(match.group1)
           message        == match.group2
           config_entry   == parse_config[rule_i]
           scope_match    == pattern_search(config_entry.pattern, message)
       IN
       IF ~scope_applies(config_entry.scope, debug_log_type)
       THEN UNCHANGED <<parsed, lp_pc>>
       ELSE IF ~scope_match.found
       THEN UNCHANGED <<parsed, lp_pc>>
       ELSE IF config_entry.label \notin DOMAIN parsed
       THEN /\ lp_pc' = "KeyError"
            /\ UNCHANGED parsed
       ELSE /\ parsed' = [parsed EXCEPT ![config_entry.label] =
                              Append(@, scope_match.group1)]
            /\ UNCHANGED lp_pc
    /\ rule_i' = rule_i + 1
    /\ UNCHANGED <<parse_config, matches, match_i>>
    /\ UNCHANGED <<la_vars, run_vars, sched_vars, wd_vars, ea_vars, snap_vars, twice_vars, runner_vars, scan_vars>>

\* the loop over the configuration is over: next match
parse_next_match ==
    /\ lp_pc = "matching"
    /\ match_i <= Len(matches)
    /\ rule_i > Len(parse_config)
    /\ match_i' = match_i + 1
    /\ rule_i' = 1
    /\ UNCHANGED <<parse_config, matches, parsed, lp_pc>>
    /\ UNCHANGED <<la_vars, run_vars, sched_vars, wd_vars, ea_vars, snap_vars, twice_vars, runner_vars, scan_vars>>

\* return log_data
parse_return ==
    /\ lp_pc = "matching"
    /\ match_i > Len(matches)
    /\ lp_pc' = "returned"
    /\ UNCHANGED <<parse_config, matches, parsed, match_i, rule_i>>
    /\ UNCHANGED <<la_vars, run_vars, sched_vars, wd_vars, ea_vars, snap_vars, twice_vars, runner_vars, scan_vars>>

\* the inputs of parse: entries with a label, a scope and a pattern (given
\* by the literal before its group `(.*)`), and the matches of
\* split_by_pattern in the log (group 1: the identifier, group 2: the message)
ParseLabels == {<<"a">>, <<"b">>}

ParseScopes == {<<"A", "L", "L">>, <<"S", "Y", "S", "C", "A", "L", "L">>}

ParsePatterns == {<<"k">>, <<"z">>}

ParseEntries ==
    [label : ParseLabels, scope : ParseScopes, pattern : ParsePatterns]

LogIdentifiers ==
    { <<"[", "S", "Y", "S", "C", "A", "L", "L", " ", " ", "]">>,
      <<"K", "E", "R", "N", "E", "L", " ", "P", "A", "N", "I", "C", ":", " ">> }

LogMessages == {<<"y", "k", "x", "k", "\n">>, <<"k", "w", "\n">>}

LogMatches == [group1 : LogIdentifiers, group2 : LogMessages]

SeqsUpTo(S, n) == UNION {[1..k -> S] : k \in 0..n}

InitLP ==
    /\ parse_config \in SeqsUpTo(ParseEntries, MaxParseRules)
    /\ matches \in SeqsUpTo(LogMatches, MaxMatches)
    /\ parsed = <<>>
    /\ match_i = 1
    /\ rule_i = 1
    /\ lp_pc = "start"
    /\ test_spec = SchedSpec
    /\ config = <<>>
    /\ log_data = <<>>
    /\ ir_watchdog_status = None
    /\ result = TestResult_init(SchedSpec)
    /\ pc = "idle"
    /\ entry_i = 1
    /\ RunIdle
    /\ SchedIdle
    /\ WdIdle
    /\ EaIdle
    /\ SnapIdle
    /\ TwiceIdle
    /\ RunnerIdle
    /\ ScanIdle

NextLP == parse_begin \/ parse_entry \/ parse_next_match \/ parse_return

SpecLP == InitLP /\ [][NextLP]_vars

\* the entry at position j captures something from the match at position i
Captures(i, j) ==
    /\ parse_config[j].scope
           \in {<<"A", "L", "L">>, debug_log_type_of(matches[i].group1)}
    /\ pattern_search(parse_config[j].pattern, matches[i].group2).found

\* no entry with this label captures anything from any match
MatchedNothing(label) ==
    \A i \in DOMAIN matches : \A j \in DOMAIN parse_config :
        parse_config[j].label = label => ~Captures(i, j)

FirstCapture(literal, message) ==
    LET Occurs(p) == /\ p + Len(literal) - 1 <= Len(message)
                     /\ SubSeq(message, p, p + Len(literal) - 1) = literal
        first == CHOOSE p \in 1..Len(message) :
                     Occurs(p) /\ \A q \in 1..(p - 1) : ~Occurs(q)
    IN SubSeq(message, first + Len(literal), Len(message))

\* what the entries with this label capture from block i, in the order of
\* the configuration, from entry j on
RECURSIVE BlockCaptures(_, _, _)
BlockCaptures(label, i, j) ==
    IF j > Len(parse_config) THEN <<>>
    ELSE (IF parse_config[j].label = label /\ Captures(i, j)
          THEN <<FirstCapture(parse_config[j].pattern, matches[i].group2)>>
          ELSE <<>>)
         \o BlockCaptures(label, i, j + 1)

\* the captures under this label, block after block from block i on
RECURSIVE CapturesInOrder(_, _)
CapturesInOrder(label, i) ==
    IF i > Len(matches) THEN <<>>
    ELSE BlockCaptures(label, i, 1) \o CapturesInOrder(label, i + 1)

MaxBytes == 4

\* \x1B
ESC == "ESC"

\* [@-Z\\-_], [0-?], [ -/] and [@-~] among the bytes of the inputs
FeBytes == {"A"}

ParameterBytes == {"0"}

IntermediateBytes == {" "}

FinalBytes == {"A", "[", "m"}

\* how many bytes from position i on belong to the class
RECURSIVE run_length(_, _, _)
run_length(line, i, class) ==
    IF i <= Len(line) /\ line[i] \in class
    THEN 1 + run_length(line, i + 1, class)
    ELSE 0

\* the length of the match of ansi_re at position i, 0 if there is none;
\* the classes are disjoint, so the greedy runs are never given back
match_length(line, i) ==
    IF line[i] # ESC \/ i = Len(line) THEN 0
    ELSE IF line[i + 1] \in FeBytes THEN 2
    ELSE IF line[i + 1] # "[" THEN 0
    ELSE LET parameters    == run_length(line, i + 2, ParameterBytes)
             intermediates == run_length(line, i + 2 + parameters,
                                         IntermediateBytes)
             final         == i + 2 + parameters + intermediates
         IN IF final <= Len(line) /\ line[final] \in FinalBytes
            THEN final - i + 1
            ELSE 0

\* ansi_re.sub(b'', line) from position i on: the matches are taken from
\* left to right and do not overlap
RECURSIVE sub_from(_, _)
sub_from(line, i) ==
    IF i > Len(line) THEN <<>>
    ELSE IF match_length(line, i) > 0
    THEN sub_from(line, i + match_length(line, i))
    ELSE <<line[i]>> \o sub_from(line, i + 1)

escape_ansi(line) == sub_from(line, 1)

\* escape_ansi(line)
escape_ansi_call ==
    /\ ea_pc = "start"
    /\ ea_once' = escape_ansi(ea_line)
    /\ ea_pc' = "once"
    /\ UNCHANGED <<ea_line, ea_twice>>
    /\ UNCHANGED <<la_vars, run_vars, sched_vars, wd_vars, lp_vars, snap_vars, twice_vars, runner_vars, scan_vars>>

\* escape_ansi applied to its own result
escape_ansi_again ==
    /\ ea_pc = "once"
    /\ ea_twice' = escape_ansi(ea_once)
    /\ ea_pc' = "twice"
    /\ UNCHANGED <<ea_line, ea_once>>
    /\ UNCHANGED <<la_vars, run_vars, sched_vars, wd_vars, lp_vars, snap_vars, twice_vars, runner_vars, scan_vars>>

Bytes == {ESC, "[", "0", " ", "m", "A"}

InitEA ==
    /\ ea_line \in SeqsUpTo(Bytes, MaxBytes)
    /\ ea_once = <<>>
    /\ ea_twice = <<>>
    /\ ea_pc = "start"
    /\ test_spec = SchedSpec
    /\ config = <<>>
    /\ log_data = <<>>
    /\ ir_watchdog_status = None
    /\ result = TestResult_init(SchedSpec)
    /\ pc = "idle"
    /\ entry_i = 1
    /\ RunIdle
    /\ SchedIdle
    /\ WdIdle
    /\ LpIdle
    /\ SnapIdle
    /\ TwiceIdle
    /\ RunnerIdle
    /\ ScanIdle

NextEA == escape_ansi_call \/ escape_ansi_again

SpecEA == InitEA /\ [][NextEA]_vars

\* C23: escape_ansi(escape_ansi(x)) = escape_ansi(x) for every x, also
\* when the removal of a sequence brings an ESC next to bytes that form a
\* new sequence with it.
C23_Idempotent == ea_pc = "twice" => ea_twice = ea_once

\* ---------------------------------------------------------------------
\* Properties of one execution of _run
\* ---------------------------------------------------------------------

Sent(command) == \E i \in DOMAIN monitor : monitor[i] = command

WaitReturned == ir_watchdog_status # None

\* test.analyze() has run
Analysed == ~returning /\ run_pc \in {"callback", "returned"}

\* __exit__ of the QemuInterface has been entered
TeardownBegun == scope \in {"exiting", "left"}

\* C24: in one run the test-name keystrokes are sent, then the wait for the
\* finish interrupt returns, then the log is parsed and analysed, then
\* "exit" keystrokes are sent, and only then the emulator scope is torn down.
C24_RunOrder ==
    /\ WaitReturned => Sent("sendkey test")
    /\ Analysed => WaitReturned
    /\ Sent("sendkey exit") => Analysed
    /\ (TeardownBegun /\ WaitReturned) => (Analysed /\ Sent("sendkey exit"))

\* C27: is_alive is true exactly when the child has not exited: the check
\* of _run goes on to the keystrokes only while the child runs, and __exit__
\* skips `quit` once the child has exited, whatever its exit code.
C27_IsAliveIffRunning ==
    [][/\ (run_pc = "is_alive" /\ run_pc' # run_pc) =>
              (run_pc' = "sweb_input" <=> process = "running")
       /\ (run_pc = "exit_quit" /\ run_pc' # run_pc) =>
              ((run_pc' = "exit_close" /\ monitor' = monitor)
                   <=> process # "running")]_vars

Recorded(error) == \E i \in DOMAIN result.errors : result.errors[i] = error

TimeoutError == <<"Test execution timeout">>

StoppedError == <<"Test killed, because no more ", "interrupts were comming">>

\* an exit_codes rule has a capture that is no integer
RunParseFailure ==
    \E i \in DOMAIN config :
        /\ config[i].mode = "exit_codes"
        /\ \E k \in DOMAIN log_data :
               /\ log_data[k].name = config[i].label
               /\ \E c \in DOMAIN log_data[k].logs :
                      int(log_data[k].logs[c]).error

Completed == run_pc = "returned"

RetryOnlyOnParseFailureOrDeadGuest ==
    (Completed /\ result.retry) => (RunParseFailure \/ returning)

\* C29: a TIMEOUT or STOPPED of the watchdog is recorded as an error on the
\* result, and a completed run has retry set only if an exit code did not
\* parse or the guest did not start.
C29_LivenessErrorsRecorded ==
    /\ (Completed /\ ir_watchdog_status = "TIMEOUT") => Recorded(TimeoutError)
    /\ (Completed /\ ir_watchdog_status = "STOPPED") => Recorded(StoppedError)
    /\ RetryOnlyOnParseFailureOrDeadGuest

\* C29, as the code has it: a TIMEOUT is recorded unless the test expects
\* a timeout, a STOPPED is always recorded, and a completed run has retry
\* set only if an exit code did not parse or the guest did not start.
C29_LivenessErrorsRecordedUnlessExpected ==
    /\ (Completed /\ ir_watchdog_status = "TIMEOUT") =>
           (Recorded(TimeoutError) <=> ~test_spec.expect_timeout)
    /\ (Completed /\ ir_watchdog_status = "STOPPED") => Recorded(StoppedError)
    /\ RetryOnlyOnParseFailureOrDeadGuest

\* a run completed with a STOPPED watchdog on record and no retry asked
C29_Witness ==
    /\ Completed
    /\ ir_watchdog_status = "STOPPED"
    /\ Recorded(StoppedError)
    /\ ~result.retry

\* the runs whose worker thread still executes or whose emulator scope is
\* still open
ActiveRuns ==
    {r \in DOMAIN thread_pc :
        thread_pc[r] \in {"run", "callback", "callback_locked",
                          "callback_teardown"}}

\* C30: at any moment at most config.threads runs are active, a run being
\* active from the start of its worker until the worker has torn down its
\* emulator, also when runs are handed back for a retry.
C30_ActiveRunsBounded == Cardinality(ActiveRuns) <= threads

\* ---------------------------------------------------------------------
\* test_runner.py: _create_snapshot, and main up to test_runner.start().
\* The thread is the main thread; it enters and leaves the QemuInterface
\* scope by the steps of __enter__ and __exit__ above, which lead to the
\* check of is_alive and, from a scope left without an exception, to the
\* statement after the with block (the position "analyze" of _run).
\* ---------------------------------------------------------------------

\* _clean_tmp_dir and `qemu-img create` (check=True)
snap_prepare ==
    /\ run_pc = "snap_start"
    /\ \/ /\ run_pc' = "enter_mkfifo"
          /\ UNCHANGED exc
       \/ Raise("CalledProcessError")
    /\ UNCHANGED <<la_vars, arch, returning, callbacks, qemu_vars>>
    /\ UNCHANGED <<sched_vars, wd_vars, lp_vars, ea_vars, snap_vars, twice_vars, runner_vars, scan_vars>>

\* `if not qemu.is_alive(): sys.exit(1)`
snap_is_alive ==
    /\ run_pc = "is_alive"
    /\ alive' = IF is_alive THEN "True" ELSE "False"
    /\ IF is_alive
       THEN /\ run_pc' = "snap_wait_until"
            /\ UNCHANGED <<exc, scope>>
       ELSE /\ exc' = "SystemExit"
            /\ scope' = "exiting"
            /\ run_pc' = "exit_stop"
    /\ UNCHANGED <<la_vars, arch, returning, callbacks, fifo_in, fifo_out,
                   process, input, int_log, monitor>>
    /\ UNCHANGED <<snap_res, bootup_error, golden, tests_started, snap_exit>>
    /\ UNCHANGED <<sched_vars, wd_vars, lp_vars, ea_vars, twice_vars, runner_vars, scan_vars>>

\* the bootup wait that sends savevm whatever the watchdog returned
snap_wait_until_always_ok ==
    /\ run_pc = "snap_wait_until"
    /\ \E res \in WatchdogStatus : snap_res' = res
    /\ run_pc' = "snap_savevm"
    /\ UNCHANGED <<bootup_error, scope>>
    /\ UNCHANGED <<la_vars, arch, exc, returning, callbacks, fifo_in,
                   fifo_out, process, input, int_log, monitor>>
    /\ UNCHANGED <<alive, golden, tests_started, snap_exit>>
    /\ UNCHANGED <<sched_vars, wd_vars, lp_vars, ea_vars, twice_vars, runner_vars, scan_vars>>

\* res = wait_until(...); on TIMEOUT or STOPPED bootup_error = True and the
\* with block ends
snap_wait_until ==
    /\ run_pc = "snap_wait_until"
    /\ \E res \in WatchdogStatus :
          /\ snap_res' = res
          /\ IF res \in {"TIMEOUT", "STOPPED"}
             THEN /\ bootup_error' = TRUE
                  /\ scope' = "exiting"
                  /\ run_pc' = "exit_stop"
             ELSE /\ run_pc' = "snap_savevm"
                  /\ UNCHANGED <<bootup_error, scope>>
    /\ UNCHANGED <<la_vars, arch, exc, returning, callbacks, fifo_in,
                   fifo_out, process, input, int_log, monitor>>
    /\ UNCHANGED <<alive, golden, tests_started, snap_exit>>
    /\ UNCHANGED <<sched_vars, wd_vars, lp_vars, ea_vars, twice_vars, runner_vars, scan_vars>>

\* qemu.monitor_command(f'savevm {label}\n'), the last statement of the block
snap_savevm ==
    /\ run_pc = "snap_savevm"
    /\ IF process = "running"
       THEN /\ monitor' = Append(monitor, "savevm")
            /\ UNCHANGED exc
       ELSE /\ exc' = "BrokenPipeError"
            /\ UNCHANGED monitor
    /\ scope' = "exiting"
    /\ run_pc' = "exit_stop"
    /\ UNCHANGED <<la_vars, arch, returning, callbacks, fifo_in, fifo_out,
                   process, input, int_log>>
    /\ UNCHANGED <<sched_vars, wd_vars, lp_vars, ea_vars, snap_vars, twice_vars, runner_vars, scan_vars>>

\* after the with block: `if bootup_error: ... sys.exit(1)`, else the copy
\* of the overlay to SWEB-snapshot.qcow2 (check=True)
snap_after_scope ==
    /\ run_pc = "analyze"
    /\ IF bootup_error
       THEN /\ Raise("SystemExit")
            /\ UNCHANGED golden
       ELSE \/ /\ golden' = TRUE
               /\ run_pc' = "returned"
               /\ UNCHANGED exc
            \/ /\ Raise("CalledProcessError")
               /\ UNCHANGED golden
    /\ UNCHANGED <<la_vars, arch, returning, callbacks, qemu_vars>>
    /\ UNCHANGED <<alive, snap_res, bootup_error, tests_started, snap_exit>>
    /\ UNCHANGED <<sched_vars, wd_vars, lp_vars, ea_vars, twice_vars, runner_vars, scan_vars>>

\* main: create_snapshot() has returned, test_runner.start() is called
main_start_tests ==
    /\ run_pc = "returned"
    /\ ~tests_started
    /\ tests_started' = TRUE
    /\ UNCHANGED <<alive, snap_res, bootup_error, golden, snap_exit>>
    /\ UNCHANGED <<la_vars, run_vars, sched_vars, wd_vars, lp_vars, ea_vars, twice_vars, runner_vars, scan_vars>>

\* main: SystemExit or another exception left create_snapshot(); the
\* process ends with status 1
main_snapshot_failed ==
    /\ run_pc = "raised"
    /\ snap_exit = None
    /\ snap_exit' = "1"
    /\ UNCHANGED <<alive, snap_res, bootup_error, golden, tests_started>>
    /\ UNCHANGED <<la_vars, run_vars, sched_vars, wd_vars, lp_vars, ea_vars, twice_vars, runner_vars, scan_vars>>

InitSnap ==
    /\ arch \in {"x86_64", "x86_32", "arm"}
    /\ run_pc = "snap_start"
    /\ scope = "outside"
    /\ fifo_in = FALSE
    /\ fifo_out = FALSE
    /\ process = "none"
    /\ input = "unset"
    /\ int_log = FALSE
    /\ exc = None
    /\ returning = FALSE
    /\ monitor = <<>>
    /\ callbacks = 0
    /\ SnapIdle
    /\ TwiceIdle
    /\ RunnerIdle
    /\ ScanIdle
    /\ test_spec = SchedSpec
    /\ config = <<>>
    /\ log_data = <<>>
    /\ ir_watchdog_status = None
    /\ result = TestResult_init(SchedSpec)
    /\ pc = "idle"
    /\ entry_i = 1
    /\ SchedIdle
    /\ WdIdle
    /\ LpIdle
    /\ EaIdle

NextSnap ==
    \/ snap_prepare
    \/ enter_mkfifo
    \/ enter_popen
    \/ enter_open_input
    \/ enter_watchdog_start
    \/ snap_is_alive
    \/ snap_wait_until
    \/ snap_savevm
    \/ exit_stop
    \/ exit_quit
    \/ exit_close
    \/ snap_after_scope
    \/ main_start_tests
    \/ main_snapshot_failed
    \/ process_exits

SpecSnap == InitSnap /\ [][NextSnap]_vars

BootFailed == alive = "False" \/ snap_res \in {"TIMEOUT", "STOPPED"}

SnapshotEnded == run_pc \in {"raised", "returned"}

ScopeTornDown ==
    /\ scope = "left"
    /\ ~fifo_in /\ ~fifo_out
    /\ input = "closed"
    /\ process # "running"

\* C25: when the bootup wait returns TIMEOUT or STOPPED, or the emulator is
\* not alive after its start, no savevm is sent, SWEB-snapshot.qcow2 is not
\* written, the emulator scope is torn down all the same, and the process
\* fails before a test run is started.
C25_BootFailureFailsRun ==
    BootFailed =>
        /\ ~Sent("savevm")
        /\ ~golden
        /\ ~tests_started
        /\ SnapshotEnded => (ScopeTornDown /\ run_pc = "raised")

Before(first, second) ==
    \E i, j \in DOMAIN monitor :
        i < j /\ monitor[i] = first /\ monitor[j] = second

\* C26 as stated: savevm is sent only after the bootup interrupt was seen;
\* the overlay is copied to SWEB-snapshot.qcow2 only after savevm and then
\* quit were sent and the emulator has terminated and its scope is left;
\* no test run is started before the copy.
C26_QuitSentBeforeCopy ==
    /\ Sent("savevm") => snap_res = "OK"
    /\ golden => /\ Before("savevm", "quit")
                 /\ ScopeTornDown
    /\ tests_started => golden

\* C26: savevm is sent only after the bootup interrupt was seen; the overlay
\* is copied to SWEB-snapshot.qcow2 only after savevm was sent, the emulator
\* has terminated (by a quit sent after savevm, or on its own, and then
\* without a quit) and its scope is left; no test run is started before the
\* copy.
C26_SnapshotOrder ==
    /\ Sent("savevm") => snap_res = "OK"
    /\ golden => /\ Sent("savevm")
                 /\ Before("savevm", "quit") \/ ~Sent("quit")
                 /\ ScopeTornDown
    /\ tests_started => golden

\* the snapshot was written after savevm and quit, and the tests were started
C26_Witness == golden /\ tests_started /\ Before("savevm", "quit")

\* ---------------------------------------------------------------------
\* Properties of the hand-over of a run from its worker to the scheduler
\* ---------------------------------------------------------------------

\* C31: the completion callback of a run is invoked only after the emulator
\* scope of the run has been torn down completely (scope left, pipes
\* removed, input closed, emulator terminated), so that the run can be
\* restarted only when no worker uses its directory any more.
C31_PublishedAfterTeardown == callbacks > 0 => ScopeTornDown

\* ---------------------------------------------------------------------
\* TestRunner.start under a shutdown request.  start() has no operation for
\* one: the request is a SIGINT, which Python raises as KeyboardInterrupt
\* in the main thread, at any statement of start().  Nothing in start() or
\* main catches it, so the main thread leaves start(); the worker threads
\* are not daemon threads and go on with _run.
\* ---------------------------------------------------------------------
main_interrupt ==
    /\ main_pc \in {"fill", "while_queue", "while_running", "body", "if_len",
                    "run_test"}
    /\ main_pc' = "interrupted"
    /\ UNCHANGED <<threads, test_runs, test_queue, running_tests, lock,
                   results, thread_pc, fill_i, counters, enqueues, success,
                   exit_status>>
    /\ UNCHANGED <<la_vars, run_vars, wd_vars, lp_vars, ea_vars, snap_vars, twice_vars, runner_vars, scan_vars>>

NextShutdown == Next \/ main_interrupt

SpecShutdown == Init /\ [][NextShutdown]_vars

\* The worker of run r has ended with the pipes of its emulator still in
\* place: it went through the callback made inside the with block (its
\* result was never analysed), where the emulator is dead and __exit__
\* raises in interrupt_watchdog.stop() before os.remove (exit_stop)
PipesLeft(r) ==
    /\ thread_pc[r] = "callback_raised"
    /\ results[r].status = NoStatus

Started(r) == thread_pc[r] # "idle"

\* C32: once shutdown has been requested while start() runs, no further run
\* is started from the queue, and every worker that was still running ends
\* its run with the emulator scope torn down and the pipes deleted.
C32_ShutdownDrains ==
    [][main_pc = "interrupted" =>
          \A r \in DOMAIN thread_pc :
             /\ Started(r)' => Started(r)
             /\ PipesLeft(r)' => PipesLeft(r)]_vars

\* ---------------------------------------------------------------------
\* LogAnalyzer.analyze invoked twice on one analyzer, with the same
\* log_data and watchdog status
\* ---------------------------------------------------------------------

\* the caller keeps what analyze returned and calls it again
analyze_again ==
    /\ pc = "returned"
    /\ first_result = <<>>
    /\ first_result' = <<result>>
    /\ pc' = "call"
    /\ UNCHANGED <<test_spec, config, log_data, ir_watchdog_status, result,
                   entry_i>>
    /\ UNCHANGED <<run_vars, sched_vars, wd_vars, lp_vars, ea_vars, snap_vars,
                   runner_vars, scan_vars>>

NextTwice == NextLA \/ analyze_again

SpecTwice == InitLA /\ [][NextTwice]_vars

Orderings(seq) ==
    {p \in [DOMAIN seq -> Range(seq)] : Range(p) = Range(seq)}

InitOrder ==
    /\ test_spec \in TestSpecs
    /\ ir_watchdog_status \in WatchdogStatus
    /\ \E opts \in Scenarios :
          /\ config = ConfigOf(opts)
          /\ log_data \in Orderings(LogDataOf(opts))
    /\ result = TestResult("NOT_RUN")
    /\ pc = "call"
    /\ entry_i = 1
    /\ RunIdle
    /\ SchedIdle
    /\ WdIdle
    /\ LpIdle
    /\ EaIdle
    /\ SnapIdle
    /\ TwiceIdle
    /\ RunnerIdle
    /\ ScanIdle

SpecOrder == InitOrder /\ [][NextLA]_vars

ItemNamed(ld, name) == ld[CHOOSE k \in DOMAIN ld : ld[k].name = name]

\* the rules applied one after the other in the order of the rule list
RECURSIVE InRuleOrder(_, _, _, _, _)
InRuleOrder(res, spec, cfg, ld, i) ==
    IF i > Len(cfg) THEN res
    ELSE InRuleOrder(analyze_entry(res, spec, cfg, ItemNamed(ld, cfg[i].name)),
                     spec, cfg, ld, i + 1)

\* C34: the errors of the returned result are the errors of the watchdog
\* pre-reductions followed by the errors of the rules in the order of the
\* rule list, and the step of a rule whose captured list is empty leaves
\* the result as it was.
C34_ErrorsInRuleOrder ==
    [][/\ (pc' = "returned" /\ ~test_spec.disabled) =>
              result'.errors =
                  InRuleOrder(analyze_begin(test_spec, ir_watchdog_status),
                              test_spec, config, log_data, 1).errors
       /\ (RuleStep /\ CurrentLogs = <<>>) => result' = result]_vars

\* ---------------------------------------------------------------------
\* Properties of the work queue of TestRunner.start
\* ---------------------------------------------------------------------

\* the thread of run r is started in this step
Starts(r) == thread_pc[r] # "run" /\ thread_pc'[r] = "run"

MainStep ==
    \/ main_fill
    \/ main_fill_done
    \/ main_while_queue
    \/ main_while_running
    \/ main_if_not_queue
    \/ main_if_len
    \/ main_run_test
    \/ main_success

ThreadStep(r) ==
    \/ thread_run(r)
    \/ thread_callback_pop(r)
    \/ thread_callback_rest(r)
    \/ thread_teardown(r)

\* start() alone, without what main does after it
NextStart == MainStep \/ \E r \in Runs : ThreadStep(r)

SpecFair ==
    /\ Init
    /\ [][NextStart]_vars
    /\ WF_vars(MainStep)
    /\ \A r \in Runs : WF_vars(ThreadStep(r))

\* C36: under fair scheduling, where every worker ends its execution, every
\* registered run is eventually started and start() eventually returns.
C36_StartReturns ==
    /\ \A r \in Runs : <>(r \in DOMAIN thread_pc => thread_pc[r] # "idle")
    /\ <>(main_pc = "returned")

\* ---------------------------------------------------------------------
\* Status and errors of the result that analyze returns
\* ---------------------------------------------------------------------

\* C37: a result that analyze returns with status SUCCESS has an empty error
\* list: once a pre-reduction or a rule has appended an error, the returned
\* status is not SUCCESS.
C37_SuccessHasNoErrors ==
    pc = "returned" => (result.status = "SUCCESS" => result.errors = <<>>)

\* ---------------------------------------------------------------------
\* Properties of the progress counters of TestRunner.start
\* ---------------------------------------------------------------------

\* C38: the counters change only in run_test and in the callback, which
\* hold the lock; whenever the lock is free RUNNING equals the size of the
\* running map; and when start returns RUNNING is 0, SUCCESS + FAIL is the
\* number of registered runs and SUCCESS counts the runs whose status is
\* SUCCESS.
C38_CountersConsistent ==
    [][/\ counters' # counters =>
              \/ lock = "locked"
              \/ \E r \in DOMAIN thread_pc : Starts(r)
       /\ lock' = "free" =>
              counters'.RUNNING = Cardinality(running_tests')
       /\ main_pc' = "returned" =>
              /\ counters'.RUNNING = 0
              /\ counters'.SUCCESS + counters'.FAIL = Len(test_runs)
              /\ counters'.SUCCESS =
                     Cardinality({r \in DOMAIN results' :
                                     results'[r].status = "SUCCESS"})]_vars

\* ---------------------------------------------------------------------
\* TestRunner.__init__, start and get_markdown_test_summary for a list of
\* specs of which some are disabled.  A spec is named by its position in
\* the name order; run i of self.test_runs is registered[i].
\* ---------------------------------------------------------------------
MaxSpecs == 2

MaxRepeat == 2

\* the longest self.test_runs the scheduler is run with
MaxRegistered == 2

\* [TestRun(spec, num, config) for spec in specs for num in range(repeat)]:
\* the list comprehension without its filter
RECURSIVE test_runs_unfiltered(_, _, _)
test_runs_unfiltered(all_specs, times, k) ==
    IF k > Len(all_specs) THEN <<>>
    ELSE [n \in 1..times |->
             [spec |-> all_specs[k].test_name, run_number |-> n - 1]]
         \o test_runs_unfiltered(all_specs, times, k + 1)

\* [TestRun(spec, num, config) for spec in specs if not spec.disabled
\*                             for num in range(repeat)]
RECURSIVE test_runs_of(_, _, _)
test_runs_of(all_specs, times, k) ==
    IF k > Len(all_specs) THEN <<>>
    ELSE (IF all_specs[k].disabled THEN <<>>
          ELSE [n \in 1..times |->
                   [spec |-> all_specs[k].test_name, run_number |-> n - 1]])
         \o test_runs_of(all_specs, times, k + 1)

\* list.sort(key=...): a stable sort; key is the function from the items
\* to their integer keys
RECURSIVE insert_by(_, _, _)
insert_by(x, sorted, key) ==
    IF sorted = <<>> THEN <<x>>
    ELSE IF key[sorted[Len(sorted)]] <= key[x] THEN Append(sorted, x)
    ELSE Append(insert_by(x, SubSeq(sorted, 1, Len(sorted) - 1), key),
                sorted[Len(sorted)])

RECURSIVE sort_by(_, _)
sort_by(seq, key) ==
    IF seq = <<>> THEN <<>>
    ELSE insert_by(seq[Len(seq)], sort_by(SubSeq(seq, 1, Len(seq) - 1), key),
                   key)

\* if repeat > 1: self.test_runs.sort(key=(lambda test: test.run_number))
sorted_test_runs(runs, times) ==
    IF times > 1
    THEN sort_by(runs, [test \in Range(runs) |-> test.run_number])
    ELSE runs

\* self.disabled_specs = [spec for spec in specs if spec.disabled]
disabled_specs_of(all_specs) ==
    LET is_disabled(spec) == spec.disabled
        chosen == SelectSeq(all_specs, is_disabled)
    IN [k \in DOMAIN chosen |-> chosen[k].test_name]

\* TestStatus names in the order of their spelling
status_rank(status) ==
    CASE status = "DISABLED" -> 1
      [] status = "FAILED" -> 2
      [] status = "PANIC" -> 3
      [] status = "SUCCESS" -> 4
      [] OTHER -> 5

\* get_markdown_test_summary: the rows of the table.  The runs are sorted
\* by repr and then by the name of their status; the disabled specs come
\* first
get_markdown_test_summary ==
    /\ main_pc = "returned"
    /\ summary = <<>>
    /\ LET by_repr == [r \in DOMAIN registered |->
                          registered[r].spec * (MaxRepeat + 1)
                              + registered[r].run_number]
           by_status == [r \in DOMAIN registered |->
                            status_rank(results[r].status)]
           sorted == sort_by(sort_by(test_runs, by_repr), by_status)
       IN
       /\ test_runs' = sorted
       /\ summary' =
             [k \in DOMAIN disabled_specs |->
                 [spec |-> disabled_specs[k], run_number |-> None,
                  status |-> "DISABLED"]]
             \o [k \in DOMAIN sorted |->
                    [spec |-> registered[sorted[k]].spec,
                     run_number |-> registered[sorted[k]].run_number,
                     status |-> results[sorted[k]].status]]
    /\ main_pc' = "summarised"
    /\ UNCHANGED <<threads, test_queue, running_tests, lock, results,
                   thread_pc, fill_i, counters, enqueues, success,
                   exit_status>>
    /\ UNCHANGED <<specs, repeat, registered, disabled_specs>>
    /\ UNCHANGED <<la_vars, run_vars, wd_vars, lp_vars, ea_vars, snap_vars,
                   twice_vars, scan_vars>>

SpecLists ==
    UNION {[1..n -> BOOLEAN] : n \in 0..MaxSpecs}

InitRunner ==
    /\ threads \in 1..MaxThreads
    /\ \E flags \in SpecLists :
          specs = [k \in DOMAIN flags |-> [test_name |-> k, disabled |-> flags[k]]]
    /\ repeat \in 1..MaxRepeat
    /\ registered = sorted_test_runs(test_runs_of(specs, repeat, 1), repeat)
    /\ Len(registered) <= MaxRegistered
    /\ disabled_specs = disabled_specs_of(specs)
    /\ summary = <<>>
    /\ test_runs = [i \in DOMAIN registered |-> i]
    /\ test_queue = Reverse(test_runs)
    /\ running_tests = {}
    /\ lock = "free"
    /\ results = [r \in DOMAIN test_runs |-> TestResult_init(SchedSpec)]
    /\ thread_pc = [r \in DOMAIN test_runs |-> "idle"]
    /\ main_pc = "fill"
    /\ fill_i = 0
    /\ counters = [RUNNING |-> 0, SUCCESS |-> 0, FAIL |-> 0]
    /\ enqueues = [r \in DOMAIN test_runs |-> 1]
    /\ success = FALSE
    /\ exit_status = None
    /\ test_spec = SchedSpec
    /\ config = SchedConfig
    /\ log_data = <<>>
    /\ ir_watchdog_status = None
    /\ result = TestResult_init(SchedSpec)
    /\ pc = "idle"
    /\ entry_i = 1
    /\ RunIdle
    /\ WdIdle
    /\ LpIdle
    /\ EaIdle
    /\ SnapIdle
    /\ TwiceIdle
    /\ ScanIdle

NextRunner ==
    \/ MainStep
    \/ \E r \in Runs : ThreadStep(r)
    \/ get_markdown_test_summary

SpecRunner == InitRunner /\ [][NextRunner]_vars

DisabledNames == {specs[k].test_name : k \in {j \in DOMAIN specs : specs[j].disabled}}

\* the runs that were ever put on the queue or given a worker and emulator
Handled == Range(test_queue) \cup running_tests
               \cup {r \in DOMAIN thread_pc : thread_pc[r] # "idle"}

\* C39: no run of a disabled spec is registered, queued or given a worker
\* with its emulator; the summary lists every disabled spec once, with
\* status DISABLED; and success is decided by the runs of the other specs
\* alone.
C39_DisabledNeverRuns ==
    /\ \A r \in DOMAIN registered : registered[r].spec \notin DisabledNames
    /\ Handled \subseteq DOMAIN registered
    /\ summary # <<>> =>
          \A name \in DisabledNames :
             /\ \E k \in DOMAIN summary :
                   /\ summary[k].spec = name
                   /\ summary[k].status = "DISABLED"
             /\ Cardinality({k \in DOMAIN summary : summary[k].spec = name}) = 1
    /\ main_pc \in {"returned", "summarised"} =>
          (success <=> \A r \in DOMAIN registered :
                          results[r].status \notin {"FAILED", "PANIC"})

\* the summary was made for a list with a disabled spec and a spec that ran
C39_Witness ==
    /\ summary # <<>>
    /\ DisabledNames # {}
    /\ registered # <<>>
    /\ success

\* ---------------------------------------------------------------------
\* log_parser.py: split_by_pattern and its use by finditer in parse
\* ---------------------------------------------------------------------

MaxChunks == 3

\* the characters of the scanned texts that [A-Z_] matches
UpperCase == {"A", "B", "C", "E", "I", "K", "L", "N", "P", "R", "_"}

\* the characters of the scanned texts that \s matches
RegexSpace == {" ", "\n"}

\* how many characters of s, from position i on, are in S
RECURSIVE run_of(_, _, _)
run_of(s, i, S) ==
    IF i <= Len(s) /\ s[i] \in S THEN 1 + run_of(s, i + 1, S) ELSE 0

\* \[[A-Z_]+\s*\] tried at position i: the position after the match, 0 if
\* there is none. The greedy runs cannot give a character back: what follows
\* [A-Z_]+ must be \s or ], what follows \s* must be ].
identifier_end(s, i) ==
    IF i <= Len(s) /\ s[i] = "["
    THEN LET u     == run_of(s, i + 1, UpperCase)
             w     == run_of(s, i + 1 + u, RegexSpace)
             close == i + 1 + u + w
         IN IF u >= 1 /\ close <= Len(s) /\ s[close] = "]"
            THEN close + 1 ELSE 0
    ELSE 0

KERNEL == <<"K", "E", "R", "N", "E", "L">>

PANIC == <<"P", "A", "N", "I", "C">>

\* KERNEL\sPANIC tried at position i: the position after the match, 0 if none
kernel_panic_end(s, i) ==
    LET sp == i + Len(KERNEL)
        e  == sp + 1 + Len(PANIC)
    IN IF /\ e - 1 <= Len(s)
          /\ SubSeq(s, i, sp - 1) = KERNEL
          /\ s[sp] \in RegexSpace
          /\ SubSeq(s, sp + 1, e - 1) = PANIC
       THEN e ELSE 0

\* KERNEL\sPANIC:\s tried at position i
kernel_panic_colon_end(s, i) ==
    LET e == kernel_panic_end(s, i) IN
    IF e # 0 /\ e + 1 <= Len(s) /\ s[e] = ":" /\ s[e + 1] \in RegexSpace
    THEN e + 2 ELSE 0

\* group 1 tried at position i: the first alternative, else the second
group1_end(s, i) ==
    IF identifier_end(s, i) # 0 THEN identifier_end(s, i)
    ELSE kernel_panic_colon_end(s, i)

\* the lookahead (?= \[[A-Z_]+\s*\] | KERNEL\sPANIC | \Z ) at position j
lookahead(s, j) ==
    \/ identifier_end(s, j) # 0
    \/ kernel_panic_end(s, j) # 0
    \/ j = Len(s) + 1

\* group 2, .+? with DOTALL, begun at position e: the first position j > e
\* where the lookahead holds; 0 if no character is left for .+?
RECURSIVE lazy_end(_, _)
lazy_end(s, j) ==
    IF j > Len(s) + 1 THEN 0
    ELSE IF lookahead(s, j) THEN j
    ELSE lazy_end(s, j + 1)

group2_end(s, e) == IF e > Len(s) THEN 0 ELSE lazy_end(s, e + 1)

\* the whole pattern tried at position i: <<end of group 1, end of group 2>>,
\* <<0, 0>> if it does not match there
match_at(s, i) ==
    LET e == group1_end(s, i) IN
    IF e = 0 \/ group2_end(s, e) = 0 THEN <<0, 0>>
    ELSE <<e, group2_end(s, e)>>

\* the first position from i on where the pattern matches, 0 if none
RECURSIVE search_from(_, _)
search_from(s, i) ==
    IF i > Len(s) THEN 0
    ELSE IF match_at(s, i)[1] # 0 THEN i
    ELSE search_from(s, i + 1)

\* one iteration of `for match in self.split_by_pattern.finditer(...)`:
\* the next match, and the search goes on where it ended
finditer_next ==
    /\ scan_pc = "scanning"
    /\ search_from(escaped_logs, scan_at) # 0
    /\ LET at == search_from(escaped_logs, scan_at)
           m  == match_at(escaped_logs, at)
       IN /\ scanned' = Append(scanned,
                 [start  |-> at,
                  group1 |-> SubSeq(escaped_logs, at, m[1] - 1),
                  group2 |-> SubSeq(escaped_logs, m[1], m[2] - 1)])
          /\ scan_at' = m[2]
    /\ UNCHANGED <<escaped_logs, scan_pc>>
    /\ UNCHANGED <<la_vars, run_vars, sched_vars, wd_vars, lp_vars, ea_vars,
                   snap_vars, twice_vars, runner_vars>>

\* finditer is exhausted: the loop of parse is over
finditer_stop ==
    /\ scan_pc = "scanning"
    /\ search_from(escaped_logs, scan_at) = 0
    /\ scan_pc' = "done"
    /\ UNCHANGED <<escaped_logs, scan_at, scanned>>
    /\ UNCHANGED <<la_vars, run_vars, sched_vars, wd_vars, lp_vars, ea_vars,
                   snap_vars, twice_vars, runner_vars>>

\* the pieces the scanned texts are put together from
LogChunks ==
    { <<"[", "A", "]">>,
      <<"[", "B", " ", "]">>,
      KERNEL \o <<" ">> \o PANIC \o <<":", " ">>,
      KERNEL \o <<" ">> \o PANIC,
      <<"x">>, <<"\n">>, <<"[">>, <<"]">> }

RECURSIVE Flatten(_)
Flatten(chunks) ==
    IF chunks = <<>> THEN <<>> ELSE Head(chunks) \o Flatten(Tail(chunks))

InitScan ==
    /\ \E chunks \in SeqsUpTo(LogChunks, MaxChunks) :
          escaped_logs = Flatten(chunks)
    /\ scan_at = 1
    /\ scanned = <<>>
    /\ scan_pc = "scanning"
    /\ test_spec = SchedSpec
    /\ config = <<>>
    /\ log_data = <<>>
    /\ ir_watchdog_status = None
    /\ result = TestResult_init(SchedSpec)
    /\ pc = "idle"
    /\ entry_i = 1
    /\ RunIdle
    /\ SchedIdle
    /\ WdIdle
    /\ LpIdle
    /\ EaIdle
    /\ SnapIdle
    /\ TwiceIdle
    /\ RunnerIdle

NextScan == finditer_next \/ finditer_stop

SpecScan == InitScan /\ [][NextScan]_vars

\* where a tag occurs in the text: a bracketed upper-case tag or
\* "KERNEL PANIC: "
TagStarts(s) == {i \in 1..Len(s) : group1_end(s, i) # 0}

\* the start of the first tag occurrence from position j on, the position
\* after the end of the text if there is none
NextTagOrEnd(s, j) ==
    IF \E i \in TagStarts(s) : i >= j
    THEN CHOOSE i \in TagStarts(s) :
             i >= j /\ \A other \in TagStarts(s) : other >= j => i <= other
    ELSE Len(s) + 1

\* C40: when the scanner is done it has yielded one block per tag occurrence
\* of the text, in the order of the text, and the body of each block is the
\* text from the end of its tag up to, but not including, the next tag
\* occurrence or the end of the text.
C40_OneBlockPerTag ==
    scan_pc = "done" =>
        /\ {scanned[k].start : k \in DOMAIN scanned} = TagStarts(escaped_logs)
        /\ \A k \in DOMAIN scanned :
              /\ k > 1 => scanned[k - 1].start < scanned[k].start
              /\ LET e == scanned[k].start + Len(scanned[k].group1) IN
                 scanned[k].group2 =
                     SubSeq(escaped_logs, e, NextTagOrEnd(escaped_logs, e) - 1)

=============================================================================
